---- MODULE Spec2Model ----
(***************************************************************************)
(* A model of cfinterface: the linked record containers (BlockData,        *)
(* RegisterData, SectionData), the reading engines (RegisterReading,       *)
(* BlockReading) and the file facade's encoding fallback (File.read).      *)
(*                                                                         *)
(* Records are nodes 1..MaxNodes; Python's None is the node 0.  A record's *)
(* data is a sequence of characters; a stream is a sequence of characters  *)
(* in which "n" is the line feed, "r" the carriage return and "x" a byte    *)
(* that is not decodable under utf-8 or ascii but is under latin-1.        *)
(***************************************************************************)
EXTENDS Integers, Sequences, FiniteSets, TLC

\* ------------------------------------------------------------------ bounds
MaxNodes == 3
MaxRecords == 4
MaxLen == 3
MaxCalls == 2

\* --------------------------------------------------------------- constants
None == 0
Nodes == 1..(MaxNodes + MaxRecords)
NodeOrNone == Nodes \cup {None}

Variants == {"BlockData", "RegisterData", "SectionData"}
\* The records a caller constructs: two classes, and two records of one class
\* whose data differ; records of one kind compare equal under __eq__.
NodeKinds == {[cls |-> "Default", data |-> <<"a">>],
              [cls |-> "R1", data |-> <<"a">>],
              [cls |-> "R1", data |-> <<"b">>]}
NoneData == <<"None">>
EmptyData == <<>>

VARIABLES
    variant,     \* which container class is in use
    root,        \* container.__root
    head,        \* container.__head
    previous,    \* record.__previous, per node
    next,        \* record.__next, per node
    data,        \* record.__data, per node
    cls,         \* the record's class, per node
    used,        \* nodes that have been constructed
    live,        \* history: nodes added to the container and not removed since
    lastOp,      \* history: the last container operation and its arguments
    engine,      \* "RegisterReading" | "BlockReading" | "none"
    storage,     \* "TEXT" | "BINARY"
    schema,      \* allowed_registers / allowed_blocks, in declared order
    linesize,    \* probe unit in BINARY storage
    content,     \* the bytes of the file being read
    encodings,   \* File.ENCODING, in declared order
    attempt,     \* index in encodings of the encoding in use
    pc,          \* position of File.read / __read_file
    pos,         \* stream position (file.tell())
    last_position_filepointer,
    line,        \* the probed chunk
    log,         \* history: one entry per record.read call
    opened,      \* history: streams the engine has opened and not closed
    VERSIONS,    \* File.VERSIONS: version label -> list of types
    REGISTERS,   \* File.REGISTERS / BLOCKS / SECTIONS, the active type list
    VERSION,     \* File.__VERSION
    calls,       \* history: one entry per set_version call
    field,       \* a Field: kind, size, positions, format
    fieldvalue,  \* field._value
    fieldline,   \* the line handed to Field.read / Field.write
    written,     \* the line Field.write returned
    returned,    \* the value Field.read returned
    fpc,         \* "idle" | "ready" | "written" | "read" | the exception raised
    to,          \* the destination of a write: "path" | "buffer"
    wencoding,   \* the encoding the destination is opened with
    cursor,      \* the node the writer's iteration is at
    out,         \* the text or bytes written to the destination
    wlog,        \* history: one entry per record.write call
    cclass,      \* the class of a block or section used on its own
    cstate,      \* its ComponentState
    ccalls,      \* history: one entry per read_block / write_block call
    PATTERN,     \* a class pattern: its kind (str | bytes) and its text
    candidate,   \* the chunk a pattern is matched against: kind and text
    matched,     \* the last match: the method and "True" | "False" | the exception
    delimiter,   \* Line.delimiter of a register class: "None" | ";"
    shared,      \* the values held by the class-level LINE field objects
    instances,   \* the data of the register instances of the class
    lcalls,      \* history: one entry per Register.read / write call
    fileobj,     \* per file object: its class and the container its __data is
    containers   \* per container: the records appended to it

cvars == <<variant, root, head, previous, next, data, cls, used, live, lastOp>>
rvars == <<engine, storage, schema, linesize, content, encodings, attempt, pc,
           pos, last_position_filepointer, line, log, opened>>
vvars == <<VERSIONS, REGISTERS, VERSION, calls>>
fvars == <<field, fieldvalue, fieldline, written, returned, fpc>>
wvars == <<to, wencoding, cursor, out, wlog>>
kvars == <<cclass, cstate, ccalls>>
mvars == <<PATTERN, candidate, matched>>
lvars == <<delimiter, shared, instances, lcalls>>
ovars == <<fileobj, containers>>
yvars == <<kvars, mvars, lvars, ovars>>
xvars == <<vvars, fvars, wvars, yvars>>
vars == <<variant, root, head, previous, next, data, cls, used, live, lastOp,
          engine, storage, schema, linesize, content, encodings, attempt, pc,
          pos, last_position_filepointer, line, log, opened, xvars>>

\* ------------------------------------------------------ record containers

\* Register.__eq__ / DummyBlock.__eq__: same class and equal data.
Eq(a, b) == cls[a] = cls[b] /\ data[a] = data[b]

\* BlockData.__iter__: current = root; while current: yield; current = next.
RECURSIVE IterFrom(_, _, _)
IterFrom(nxt, current, fuel) ==
    IF current = None \/ fuel = 0
    THEN <<>>
    ELSE <<current>> \o IterFrom(nxt, nxt[current], fuel - 1)

Iter == IterFrom(next, root, MaxNodes + MaxRecords + 1)

\* BlockData.__len__: counts the nodes the iteration yields.
ContainerLen == Len(Iter)

SeqSet(s) == {s[i] : i \in 1..Len(s)}

NoRepeat(s) == \A i, j \in 1..Len(s) : i # j => s[i] # s[j]

\* The first node not yet constructed.
NewNode == CHOOSE n \in Nodes \ used : \A m \in Nodes \ used : n <= m

\* BlockData.add_before: the relinking of root, previous and next.
AddBeforeLinks(before, new) ==
    /\ root' = IF Eq(before, root) THEN new ELSE root
    /\ head' = head
    /\ LET nx == IF ~Eq(before, root) /\ previous[before] # None
                 THEN [next EXCEPT ![previous[before]] = new]
                 ELSE next
       IN  next' = [nx EXCEPT ![new] = before]
    /\ previous' = [previous EXCEPT ![new] = previous[before], ![before] = new]

\* RegisterData.add_after dereferences after.next without a guard.
AddAfterRaises(after) ==
    /\ variant = "RegisterData"
    /\ ~Eq(after, head)
    /\ next[after] = None

\* add_after that forgets to move the head to the new record.
AddAfterLinks_HeadNotMoved(after, new) ==
    /\ head' = head
    /\ root' = root
    /\ LET pv == IF ~Eq(after, head) /\ next[after] # None
                 THEN [previous EXCEPT ![next[after]] = new]
                 ELSE previous
       IN  previous' = [pv EXCEPT ![new] = after]
    /\ next' = [next EXCEPT ![new] = next[after], ![after] = new]

\* BlockData.add_after: the relinking of head, previous and next.
AddAfterLinks(after, new) ==
    /\ head' = IF Eq(after, head) THEN new ELSE head
    /\ root' = root
    /\ LET pv == IF ~Eq(after, head) /\ next[after] # None
                 THEN [previous EXCEPT ![next[after]] = new]
                 ELSE previous
       IN  previous' = [pv EXCEPT ![new] = after]
    /\ next' = [next EXCEPT ![new] = next[after], ![after] = new]

\* BlockData.remove: splice the neighbours around the node.
RemoveLinks(b) ==
    /\ next' = IF previous[b] # None
               THEN [next EXCEPT ![previous[b]] = next[b]]
               ELSE next
    /\ previous' = IF next[b] # None
                   THEN [previous EXCEPT ![next[b]] = previous[b]]
                   ELSE previous
    /\ UNCHANGED <<root, head>>

\* Construction of a record: Register.__init__(data=d).
Construct(new, c, d) ==
    /\ used # Nodes
    /\ new = NewNode
    /\ data' = [data EXCEPT ![new] = d]
    /\ cls' = [cls EXCEPT ![new] = c]
    /\ used' = used \cup {new}

\* BlockData.preppend
preppend(c, d) ==
    /\ engine = "none"
    /\ pc = "idle"
    /\ Cardinality(used) < MaxNodes
    /\ \E new \in Nodes :
        /\ Construct(new, c, d)
        /\ AddBeforeLinks(root, new)
        /\ live' = live \cup {new}
        /\ lastOp' = [op |-> "preppend", ref |-> root, new |-> new]
    /\ UNCHANGED <<variant>>
    /\ UNCHANGED rvars
    /\ UNCHANGED xvars

\* BlockData.append
append(c, d) ==
    /\ engine = "none"
    /\ pc = "idle"
    /\ Cardinality(used) < MaxNodes
    /\ \E new \in Nodes :
        /\ Construct(new, c, d)
        /\ AddAfterLinks(head, new)
        /\ live' = live \cup {new}
        /\ lastOp' = [op |-> "append", ref |-> head, new |-> new]
    /\ UNCHANGED <<variant>>
    /\ UNCHANGED rvars
    /\ UNCHANGED xvars

\* BlockData.add_before, the reference node taken from the container.
add_before(ref, c, d) ==
    /\ engine = "none"
    /\ pc = "idle"
    /\ Cardinality(used) < MaxNodes
    /\ ref \in SeqSet(Iter)
    /\ \E new \in Nodes :
        /\ Construct(new, c, d)
        /\ AddBeforeLinks(ref, new)
        /\ live' = live \cup {new}
        /\ lastOp' = [op |-> "add_before", ref |-> ref, new |-> new]
    /\ UNCHANGED <<variant>>
    /\ UNCHANGED rvars
    /\ UNCHANGED xvars

\* BlockData.add_after, the reference node taken from the container.
add_after(ref, c, d) ==
    /\ engine = "none"
    /\ pc = "idle"
    /\ Cardinality(used) < MaxNodes
    /\ ref \in SeqSet(Iter)
    /\ ~AddAfterRaises(ref)
    /\ \E new \in Nodes :
        /\ Construct(new, c, d)
        /\ AddAfterLinks(ref, new)
        /\ live' = live \cup {new}
        /\ lastOp' = [op |-> "add_after", ref |-> ref, new |-> new]
    /\ UNCHANGED <<variant>>
    /\ UNCHANGED rvars
    /\ UNCHANGED xvars

\* BlockData.remove, the node taken from the container.
remove(b) ==
    /\ engine = "none"
    /\ pc = "idle"
    /\ b \in SeqSet(Iter)
    /\ RemoveLinks(b)
    /\ live' = live \ {b}
    /\ lastOp' = [op |-> "remove", ref |-> b, new |-> None]
    /\ UNCHANGED <<variant, data, cls, used>>
    /\ UNCHANGED rvars
    /\ UNCHANGED xvars

NoOp == [op |-> "init", ref |-> None, new |-> None]

\* BlockData.__init__(root): root and head are the given record.
InitContainer(v, c, d) ==
    /\ variant = v
    /\ root = 1
    /\ head = 1
    /\ previous = [n \in Nodes |-> None]
    /\ next = [n \in Nodes |-> None]
    /\ data = [n \in Nodes |-> IF n = 1 THEN d ELSE EmptyData]
    /\ cls = [n \in Nodes |-> IF n = 1 THEN c ELSE "Default"]
    /\ used = {1}
    /\ live = {1}
    /\ lastOp = NoOp

InitIdleReader ==
    /\ engine = "none"
    /\ storage = "TEXT"
    /\ schema = <<>>
    /\ linesize = 1
    /\ content = <<>>
    /\ encodings = <<"utf-8">>
    /\ attempt = 1
    /\ pc = "idle"
    /\ pos = 0
    /\ last_position_filepointer = 0
    /\ line = <<>>
    /\ log = <<>>
    /\ opened = 0

\* A file class that declares no versions.
InitNoVersions ==
    /\ VERSIONS = <<>>
    /\ REGISTERS = <<>>
    /\ VERSION = <<"latest">>
    /\ calls = <<>>

\* No field is being read or written.
InitNoField ==
    /\ field = [kind |-> "Literal", size |-> 1, starting_position |-> 0,
                ending_position |-> 1, decimal_digits |-> 0, format |-> <<>>]
    /\ fieldvalue = [t |-> "None", v |-> <<>>]
    /\ fieldline = <<>>
    /\ written = <<>>
    /\ returned = [t |-> "None", v |-> <<>>]
    /\ fpc = "idle"

\* Nothing is being written.
InitNoWriter ==
    /\ to = "buffer"
    /\ wencoding = "utf-8"
    /\ cursor = None
    /\ out = <<>>
    /\ wlog = <<>>

\* No block or section is used on its own.
InitNoState ==
    /\ cclass = "Block"
    /\ cstate = "NOT_FOUND"
    /\ ccalls = <<>>

\* No pattern is being matched.
InitNoMatch ==
    /\ PATTERN = [kind |-> "str", text |-> <<>>]
    /\ candidate = [kind |-> "str", text |-> <<>>]
    /\ matched = [op |-> "none", result |-> "unset"]

\* No register class is in use.
InitNoLine ==
    /\ delimiter = "None"
    /\ shared = <<>>
    /\ instances = <<>>
    /\ lcalls = <<>>

\* No file object has been constructed.
InitNoFiles ==
    /\ fileobj = <<>>
    /\ containers = <<>>

InitNoComponent == InitNoState /\ InitNoMatch /\ InitNoLine /\ InitNoFiles

InitIdle == InitNoVersions /\ InitNoField /\ InitNoWriter /\ InitNoComponent

InitData ==
    /\ \E v \in Variants, k \in NodeKinds : InitContainer(v, k.cls, k.data)
    /\ InitIdleReader
    /\ InitIdle

NextData ==
    \/ \E k \in NodeKinds : preppend(k.cls, k.data)
    \/ \E k \in NodeKinds : append(k.cls, k.data)
    \/ \E ref \in Nodes, k \in NodeKinds : add_before(ref, k.cls, k.data)
    \/ \E ref \in Nodes, k \in NodeKinds : add_after(ref, k.cls, k.data)
    \/ \E b \in Nodes : remove(b)

SpecData == InitData /\ [][NextData]_vars

\* ------------------------------------------------------------ the stream

Alphabet == {"n", "r", "a", "b", "x"}
Storages == {"TEXT", "BINARY"}
Engines == {"RegisterReading", "BlockReading"}
EncodingLists == {<<"utf-8", "latin-1">>, <<"utf-8", "ascii">>, <<"latin-1", "utf-8">>}
LineSizes == {1, 2}

Min(a, b) == IF a <= b THEN a ELSE b

\* The byte "x" is not valid utf-8 or ascii; latin-1 decodes every byte.
Undecodable(enc, ch) == ch = "x" /\ enc \in {"utf-8", "ascii"}

\* What a byte decodes to: latin-1 turns the byte "x" into the character "e".
Decode(enc, ch) == IF ch = "x" THEN "e" ELSE ch

\* The units of c after offset s up to offset e.
Sub(c, s, e) == [i \in 1..(e - s) |-> c[s + i]]

\* file.readline(): up to and including the next line terminator, or to EOF.
\* A file opened with open(path, "r") is in universal newlines mode: "r"
\* (carriage return) and "r" "n" end a line too; a binary file ends lines at
\* "n" only.
RECURSIVE ReadlineEnd(_, _)
ReadlineEnd(c, p) ==
    IF p >= Len(c) THEN Len(c)
    ELSE IF c[p + 1] = "n" THEN p + 1
    ELSE IF storage = "TEXT" /\ c[p + 1] = "r"
    THEN (IF p + 2 <= Len(c) /\ c[p + 2] = "n" THEN p + 2 ELSE p + 1)
    ELSE ReadlineEnd(c, p + 1)

\* file.read(n): n units, or what is left.
ReadEnd(c, p, n) == Min(p + n, Len(c))

\* The encoding the stream is opened with; BINARY streams are not decoded.
Encoding == encodings[attempt]

\* Reading the units (p, e] raises UnicodeDecodeError in a text stream that
\* holds a byte the encoding cannot decode.
Raises(p, e) ==
    /\ storage = "TEXT"
    /\ \E i \in (p + 1)..e : Undecodable(Encoding, content[i])

\* Universal newlines: the text file hands out "r" "n" and "r" as "n".
RECURSIVE Universal(_)
Universal(s) ==
    IF s = <<>> THEN <<>>
    ELSE IF Head(s) = "r"
    THEN <<"n">> \o Universal(IF Len(s) >= 2 /\ s[2] = "n" THEN Tail(Tail(s)) ELSE Tail(s))
    ELSE <<Head(s)>> \o Universal(Tail(s))

\* The text or bytes the stream hands out for the units (p, e].
Chunk(p, e) ==
    IF storage = "TEXT"
    THEN Universal([i \in 1..(e - p) |-> Decode(Encoding, content[p + i])])
    ELSE Sub(content, p, e)

\* ------------------------------------------------------------------ fields

\* Python's None as a field value, and the values of the four field kinds:
\* a str is its characters, an int is the integer, a float is the pair
\* <<m, k>> standing for m / 10^k, a datetime is <<month, day>>.
NoneValue == [t |-> "None", v |-> <<>>]
StrValue(s) == [t |-> "str", v |-> s]
IntValue(n) == [t |-> "int", v |-> <<n>>]
FloatValue(m, k) == [t |-> "float", v |-> <<m, k>>]
DateValue(m, d) == [t |-> "datetime", v |-> <<m, d>>]

\* n blanks: the fill of str.ljust, str.rjust and bytes.ljust.
Blanks(n) == [i \in 1..n |-> " "]

\* s.ljust(n) and s.rjust(n): padding only, a longer s comes back whole.
Ljust(s, n) == IF Len(s) >= n THEN s ELSE s \o Blanks(n - Len(s))
Rjust(s, n) == IF Len(s) >= n THEN s ELSE Blanks(n - Len(s)) \o s

\* s[a:b] on a Python sequence, for 0 <= a: clipped to the length of s.
Slice(s, a, b) == SubSeq(s, a + 1, Min(b, Len(s)))

\* s[a:]
SliceFrom(s, a) == SubSeq(s, a + 1, Len(s))

\* s[:n], the truncation FloatField applies to the E format.
Truncate(s, n) == SubSeq(s, 1, Min(n, Len(s)))

Digits == <<"0", "1", "2", "3", "4", "5", "6", "7", "8", "9">>

\* str(n) for n >= 0
RECURSIVE StrNat(_)
StrNat(n) == IF n < 10 THEN <<Digits[n + 1]>> ELSE StrNat(n \div 10) \o <<Digits[(n % 10) + 1]>>

\* str(int(n))
StrInt(n) == IF n < 0 THEN <<"-">> \o StrNat(-n) ELSE StrNat(n)

Abs(n) == IF n < 0 THEN -n ELSE n

RECURSIVE Pow(_, _)
Pow(b, e) == IF e = 0 THEN 1 ELSE b * Pow(b, e - 1)

\* The itemsize of the numpy type of a numeric field: TYPES.get(size, 32 bit).
ItemSize(size) == IF size \in {2, 4, 8} THEN size ELSE 4

\* One byte of a binary buffer: the bytes of the text characters are the
\* characters, any other byte k is written "#k".
Byte(k) ==
    CASE k = 10 -> "n"
      [] k = 13 -> "r"
      [] k = 32 -> " "
      [] k = 45 -> "-"
      [] k = 46 -> "."
      [] k = 47 -> "/"
      [] k \in 48..57 -> Digits[k - 47]
      [] k = 59 -> ";"
      [] k = 97 -> "a"
      [] k = 98 -> "b"
      [] k = 233 -> "x"
      [] OTHER -> "#" \o ToString(k)

\* n.tobytes() of an integer of w bytes: little endian, two's complement
\* (% and \div round down, so a negative n yields its complement).
RECURSIVE ToBytes(_, _)
ToBytes(n, w) ==
    IF w = 0 THEN <<>> ELSE <<Byte(n % 256)>> \o ToBytes(n \div 256, w - 1)

\* "{:02d}".format(n), the zero padded numbers of strftime.
TwoDigits(n) == IF n < 10 THEN <<"0">> \o StrNat(n) ELSE StrNat(n)

\* value.strftime(format) for the formats "%m/%d" and "%d-%m".
Strftime(value, format) ==
    IF format = "%m/%d"
    THEN TwoDigits(value[1]) \o <<"/">> \o TwoDigits(value[2])
    ELSE TwoDigits(value[2]) \o <<"-">> \o TwoDigits(value[1])

\* round(m / 10^k, d) as the pair <<m', d>>, for d <= k: half away from zero
\* (the values drawn have no tie).
RoundTo(m, k, d) ==
    LET p == Pow(10, k - d)
        q == Abs(m) \div p
        r == Abs(m) % p
        a == IF 2 * r >= p THEN q + 1 ELSE q
    IN  IF m < 0 THEN -a ELSE a

\* "{:.dF}".format(m / 10^k): the integer part, and d decimals after a point.
FormatF(m, k, d) ==
    LET s == IF d <= k THEN RoundTo(m, k, d) ELSE m * Pow(10, d - k)
        whole == Abs(s) \div Pow(10, d)
        frac == Abs(s) % Pow(10, d)
        fracdigits == IF d = 0 THEN <<>>
                      ELSE <<".">> \o [i \in 1..(d - Len(StrNat(frac))) |-> "0"] \o StrNat(frac)
    IN  (IF s < 0 THEN <<"-">> ELSE <<>>) \o StrNat(whole) \o fracdigits

\* The loop of FloatField._textual_write in the F format: the first number
\* of decimals, from decimal_digits down to 0, whose rendering fits the
\* size; the rendering with no decimals when none fits.
RECURSIVE FixedWrite(_, _, _, _)
FixedWrite(m, k, d, size) ==
    LET value == FormatF(m, k, d)
    IN  IF Len(value) <= size \/ d = 0 THEN value
        ELSE FixedWrite(m, k, d - 1, size)

\* "{:.dE}".format(m / 10^k) for m # 0 with at most d + 1 digits: mantissa
\* with d decimals, E, the sign and two digits of the exponent.
FormatE(m, k, d) ==
    LET ds == StrNat(Abs(m))
        e == Len(ds) - 1 - k
        mant == <<ds[1]>> \o <<".">> \o [i \in 1..d |-> IF i + 1 <= Len(ds) THEN ds[i + 1] ELSE "0"]
    IN  (IF m < 0 THEN <<"-">> ELSE <<>>) \o mant \o <<"E">>
            \o (IF e < 0 THEN <<"-">> ELSE <<"+">>) \o TwoDigits(Abs(e))

\* str.encode("utf-8"): the character "e" (e acute) takes two bytes, the
\* other characters (ASCII) one.
RECURSIVE Utf8Encode(_)
Utf8Encode(s) ==
    IF s = <<>> THEN <<>>
    ELSE (IF Head(s) = "e" THEN <<Byte(195), Byte(169)>> ELSE <<Head(s)>>)
             \o Utf8Encode(Tail(s))

\* The 16 leading bits of the IEEE-754 pattern of 0.0, 0.5, 1.5 and -2.0 in
\* a float of w bytes; the bits after them are zero.
LeadingBits(value, w) ==
    CASE value = <<0, 0>> -> 0
      [] value = <<5, 1>> -> (IF w = 2 THEN 14336 ELSE IF w = 4 THEN 16128 ELSE 16352)
      [] value = <<15, 1>> -> (IF w = 2 THEN 15872 ELSE IF w = 4 THEN 16320 ELSE 16376)
      [] value = <<-2, 0>> -> 49152

\* np.array([value], dtype=float of w bytes).tobytes()
FloatToBytes(value, w) == [i \in 1..(w - 2) |-> Byte(0)] \o ToBytes(LeadingBits(value, w), 2)

\* A field: its class, the attributes Field.__init__ sets and the format
\* arguments of FloatField and DatetimeField.
Field(kind, size, starting_position, decimal_digits, format) ==
    [kind |-> kind, size |-> size, starting_position |-> starting_position,
     ending_position |-> size + starting_position,
     decimal_digits |-> decimal_digits, format |-> format]

LiteralField(size, starting_position) == Field("Literal", size, starting_position, 0, <<>>)
IntegerField(size, starting_position) == Field("Integer", size, starting_position, 0, <<>>)
FloatField(size, starting_position, decimal_digits, format) ==
    Field("Float", size, starting_position, decimal_digits, <<format>>)
DatetimeField(size, starting_position, format) ==
    Field("Datetime", size, starting_position, 0, format)

\* The class of value a field kind holds.
ValueType(kind) ==
    CASE kind = "Literal" -> "str"
      [] kind = "Integer" -> "int"
      [] kind = "Float" -> "float"
      [] kind = "Datetime" -> "datetime"

\* _textual_write / _binary_write raise on a value of the wrong class: a
\* field of numbers or dates that holds a str (int("a"), round("a", d),
\* "a".strftime).
WriteRaises(f, value) ==
    /\ value # NoneValue
    /\ value.t # ValueType(f.kind)
    /\ f.kind # "Literal"

\* LiteralField._textual_write, IntegerField._textual_write,
\* FloatField._textual_write and DatetimeField._textual_write.
TextualWrite(f, value) ==
    CASE f.kind = "Literal" ->
            Ljust(IF value = NoneValue THEN <<>> ELSE value.v, f.size)
      [] f.kind = "Integer" ->
            Rjust(IF value = NoneValue THEN <<>> ELSE StrInt(value.v[1]), f.size)
      [] f.kind = "Float" ->
            Rjust(IF value = NoneValue THEN <<>>
                  ELSE IF f.format[1] = "E" /\ value.v[1] # 0
                  THEN Truncate(FormatE(value.v[1], value.v[2], f.decimal_digits), f.size)
                  ELSE FixedWrite(value.v[1], value.v[2], f.decimal_digits, f.size),
                  f.size)
      [] f.kind = "Datetime" ->
            Ljust(IF value = NoneValue THEN <<>> ELSE Strftime(value.v, f.format[1]), f.size)

\* The four _binary_write methods.
BinaryWrite(f, value) ==
    CASE f.kind = "Literal" ->
            IF value = NoneValue THEN Blanks(f.size)
            ELSE Utf8Encode(Ljust(value.v, f.size))
      [] f.kind = "Integer" ->
            ToBytes(IF value = NoneValue THEN 0 ELSE value.v[1], ItemSize(f.size))
      [] f.kind = "Float" ->
            FloatToBytes(IF value = NoneValue THEN <<0, 0>> ELSE value.v, ItemSize(f.size))
      [] f.kind = "Datetime" ->
            IF value = NoneValue THEN Blanks(f.size)
            ELSE Utf8Encode(Ljust(Strftime(value.v, f.format[1]), f.size))

\* Field.write(line): the rendering of the value spliced over
\* line[starting_position:ending_position], the line blank padded to
\* ending_position first.
FieldWrite(f, value, buf, st) ==
    LET rendered == IF st = "BINARY" THEN BinaryWrite(f, value) ELSE TextualWrite(f, value)
        padded == Ljust(buf, f.ending_position)
    IN  Slice(padded, 0, f.starting_position) \o rendered \o SliceFrom(padded, f.ending_position)

\* What a _textual_read or _binary_read does: return a value or raise.
Returns(value) == [raises |-> "no", value |-> value]
RaisesError(e) == [raises |-> e, value |-> NoneValue]

Whitespace == {" ", "n", "r"}

\* s.strip()
RECURSIVE Lstrip(_)
Lstrip(s) == IF s # <<>> /\ Head(s) \in Whitespace THEN Lstrip(Tail(s)) ELSE s

RECURSIVE Rstrip(_)
Rstrip(s) ==
    IF s # <<>> /\ s[Len(s)] \in Whitespace THEN Rstrip(SubSeq(s, 1, Len(s) - 1)) ELSE s

Strip(s) == Rstrip(Lstrip(s))

IsDigit(c) == \E d \in 1..10 : Digits[d] = c
DigitValue(c) == (CHOOSE d \in 1..10 : Digits[d] = c) - 1
AllDigits(s) == \A i \in 1..Len(s) : IsDigit(s[i])

RECURSIVE NatOf(_)
NatOf(s) == IF s = <<>> THEN 0 ELSE NatOf(SubSeq(s, 1, Len(s) - 1)) * 10 + DigitValue(s[Len(s)])

\* The text without a leading sign.
Unsigned(s) == IF s # <<>> /\ Head(s) \in {"-", "+"} THEN Tail(s) ELSE s
Negative(s) == s # <<>> /\ Head(s) = "-"

\* int(text): blanks around, an optional sign, digits; ValueError otherwise.
ParseInt(text) ==
    LET s == Strip(text)
        body == Unsigned(s)
    IN  IF body # <<>> /\ AllDigits(body)
        THEN Returns(IntValue(IF Negative(s) THEN -NatOf(body) ELSE NatOf(body)))
        ELSE RaisesError("ValueError")

\* The float m / 10^k without trailing zero decimals.
RECURSIVE Normal(_, _)
Normal(m, k) == IF k > 0 /\ m % 10 = 0 THEN Normal(m \div 10, k - 1) ELSE <<m, k>>

\* The characters of s that are not the character c.
Except(s, c) == SelectSeq(s, LAMBDA x : x # c)

\* The number of characters after the first c in s.
RECURSIVE After(_, _)
After(s, c) == IF s = <<>> THEN 0 ELSE IF Head(s) = c THEN Len(s) - 1 ELSE After(Tail(s), c)

\* float(text): blanks around, an optional sign, digits with at most one
\* point and at least one digit; ValueError otherwise.
ParseFloat(text) ==
    LET s == Strip(text)
        body == Unsigned(s)
        digits == Except(body, ".")
    IN  IF digits # <<>> /\ AllDigits(digits) /\ Len(body) - Len(digits) <= 1
        THEN LET m == IF Negative(s) THEN -NatOf(digits) ELSE NatOf(digits)
                 k == IF Len(body) = Len(digits) THEN 0 ELSE After(body, ".")
                 n == Normal(m, k)
             IN  Returns(FloatValue(n[1], n[2]))
        ELSE RaisesError("ValueError")

\* The days of the months of the year 1900, the year strptime assumes.
DaysIn(month) == IF month = 2 THEN 28 ELSE IF month \in {4, 6, 9, 11} THEN 30 ELSE 31

\* The number strptime takes for %m or %d: one or two digits, not zero; a
\* day may be a blank and one digit.
Number(s, isday) ==
    LET t == IF isday /\ Len(s) = 2 /\ s[1] = " " THEN Tail(s) ELSE s
    IN  IF Len(t) \in {1, 2} /\ AllDigits(t) /\ NatOf(t) > 0 THEN NatOf(t) ELSE 0

\* datetime.strptime(text, format) for the formats "%m/%d" and "%d-%m".
Strptime(text, format) ==
    LET sep == IF format = "%m/%d" THEN "/" ELSE "-"
        at == {i \in 1..Len(text) : text[i] = sep}
    IN  IF Cardinality(at) # 1 THEN RaisesError("ValueError")
        ELSE LET i == CHOOSE j \in at : TRUE
                 left == SubSeq(text, 1, i - 1)
                 right == SubSeq(text, i + 1, Len(text))
                 month == Number(IF format = "%m/%d" THEN left ELSE right, FALSE)
                 day == Number(IF format = "%m/%d" THEN right ELSE left, TRUE)
             IN  IF month \in 1..12 /\ day \in 1..DaysIn(month)
                 THEN Returns(DateValue(month, day))
                 ELSE RaisesError("ValueError")

\* The loop of DatetimeField._textual_read over the formats: the first that
\* parses; ValueError("Could not read datetime") when none does.
RECURSIVE ReadDatetime(_, _)
ReadDatetime(text, formats) ==
    IF formats = <<>> THEN RaisesError("ValueError")
    ELSE LET r == Strptime(text, Head(formats))
         IN  IF r.raises = "no" THEN r ELSE ReadDatetime(text, Tail(formats))

\* The four _textual_read methods on line[starting_position:ending_position].
TextualRead(f, buf) ==
    LET slice == Slice(buf, f.starting_position, f.ending_position)
    IN  CASE f.kind = "Literal" -> Returns(StrValue(Strip(slice)))
          [] f.kind = "Integer" -> ParseInt(slice)
          [] f.kind = "Float" -> ParseFloat(slice)
          [] f.kind = "Datetime" -> ReadDatetime(Strip(slice), f.format)

\* The value of a byte.
FromByte(b) == CHOOSE k \in 0..255 : Byte(k) = b

\* bytes.decode("utf-8"): a byte below 128 is its character, the two bytes
\* of "e" are "e", any other byte raises UnicodeDecodeError.
RECURSIVE Utf8Decode(_)
Utf8Decode(bs) ==
    IF bs = <<>> THEN Returns(StrValue(<<>>))
    ELSE IF Len(bs) >= 2 /\ bs[1] = Byte(195) /\ bs[2] = Byte(169)
    THEN LET rest == Utf8Decode(Tail(Tail(bs)))
         IN  IF rest.raises = "no" THEN Returns(StrValue(<<"e">> \o rest.value.v)) ELSE rest
    ELSE IF FromByte(Head(bs)) >= 128 THEN RaisesError("UnicodeDecodeError")
    ELSE LET rest == Utf8Decode(Tail(bs))
         IN  IF rest.raises = "no" THEN Returns(StrValue(<<Head(bs)>> \o rest.value.v)) ELSE rest

\* The integer of little endian bytes in two's complement: the last byte
\* carries the sign.
RECURSIVE FromBytes(_)
FromBytes(bs) ==
    IF Len(bs) = 1
    THEN (IF FromByte(bs[1]) >= 128 THEN FromByte(bs[1]) - 256 ELSE FromByte(bs[1]))
    ELSE FromByte(Head(bs)) + 256 * FromBytes(Tail(bs))

\* np.frombuffer(slice, dtype, count=1)[0]: ValueError when the slice is
\* smaller than one item.  A float comes back as the float of its bits.
FromBuffer(kind, slice, w) ==
    IF Len(slice) < w THEN RaisesError("ValueError")
    ELSE IF kind = "Integer" THEN Returns(IntValue(FromBytes(SubSeq(slice, 1, w))))
    ELSE LET known == {v \in {<<0, 0>>, <<5, 1>>, <<15, 1>>, <<-2, 0>>} :
                          FloatToBytes(v, w) = SubSeq(slice, 1, w)}
         IN  IF known # {}
             THEN Returns([t |-> "float", v |-> CHOOSE v \in known : TRUE])
             ELSE Returns([t |-> "float", v |-> <<"bits">> \o SubSeq(slice, 1, w)])

\* The four _binary_read methods.
BinaryRead(f, buf) ==
    LET slice == Slice(buf, f.starting_position, f.ending_position)
    IN  CASE f.kind = "Literal" ->
                LET d == Utf8Decode(slice)
                IN  IF d.raises = "no" THEN Returns(StrValue(Strip(d.value.v))) ELSE d
          [] f.kind \in {"Integer", "Float"} -> FromBuffer(f.kind, slice, ItemSize(f.size))
          [] f.kind = "Datetime" ->
                LET d == Utf8Decode(slice)
                IN  IF d.raises = "no" THEN ReadDatetime(Strip(d.value.v), f.format)
                    ELSE RaisesError("ValueError")

\* An except clause that lets the subclasses of ValueError through.
IsValueError_ExactClass(e) == e = "ValueError"

\* The exceptions `except ValueError` catches: ValueError and its subclass
\* UnicodeDecodeError.
IsValueError(e) == e \in {"ValueError", "UnicodeDecodeError"}

\* Field.read(line): the value the kind's read returns, None when it raises
\* ValueError; any other exception propagates.
FieldRead(f, buf, st) ==
    LET r == IF st = "BINARY" THEN BinaryRead(f, buf) ELSE TextualRead(f, buf)
    IN  IF r.raises # "no" /\ IsValueError(r.raises) THEN Returns(NoneValue) ELSE r

\* ---------------------------------------------------------- record types

RegisterTypes == {"R1", "R2"}
BlockTypes == {"B1", "B2"}

\* Register.IDENTIFIER, IDENTIFIER_DIGITS and LINE of the declared register
\* types: R1 has one literal field, R2 none, R3 an integer and a literal,
\* R4 two literals.
IDENTIFIER(t) == IF t = "R1" THEN "a" ELSE "b"
IDENTIFIER_DIGITS(t) == IF t = "R1" THEN 1 ELSE 2
LINE(t) ==
    CASE t = "R1" -> <<LiteralField(1, 1)>>
      [] t = "R2" -> <<>>
      [] t = "R3" -> <<IntegerField(2, 2), LiteralField(1, 4)>>
      [] t = "R4" -> <<LiteralField(1, 2), LiteralField(1, 3)>>

\* The sizes of the LINE fields.
FieldSizes(t) == [i \in 1..Len(LINE(t)) |-> LINE(t)[i].size]

\* Register.__init__: the identifier is a literal field at position 0.
identifier_field(t) == LiteralField(IDENTIFIER_DIGITS(t), 0)

\* Line.read, positional: every field reads its own range of the line.
LineRead(fields, buf, st) == [i \in 1..Len(fields) |-> FieldRead(fields[i], buf, st).value]

\* Block.BEGIN_PATTERN and END_PATTERN of the declared block types.
BEGIN_PATTERN(t) == IF t = "B1" THEN "a" ELSE "b"
END_PATTERN(t) == "b"

RECURSIVE SumSeq(_)
SumSeq(s) == IF s = <<>> THEN 0 ELSE Head(s) + SumSeq(Tail(s))

\* re.search(pattern, text) for a one-character literal pattern.
Search(pattern, text) == \E i \in 1..Len(text) : text[i] = pattern

\* line[:n]
Prefix(text, n) == SubSeq(text, 1, Min(n, Len(text)))

\* Register.matches: the identifier is searched in line[:IDENTIFIER_DIGITS].
matches(t, chunk) == Search(IDENTIFIER(t), Prefix(chunk, IDENTIFIER_DIGITS(t)))

\* Block.begins / Block.ends
begins(t, chunk) == Search(BEGIN_PATTERN(t), chunk)
ends(t, chunk) == Search(END_PATTERN(t), chunk)

\* Line.size of the line Register.read builds: identifier field + fields.
LineSize(t) == IDENTIFIER_DIGITS(t) + SumSeq(FieldSizes(t))

\* ------------------------------------------------------- reading engines

\* A classification loop that does not stop at the first match: the last
\* matching type wins.
RECURSIVE FindFrom_LastMatch(_, _)
FindFrom_LastMatch(k, chunk) ==
    IF k > Len(schema) THEN "Default"
    ELSE LET later == FindFrom_LastMatch(k + 1, chunk)
         IN  IF later # "Default" THEN later
             ELSE IF (IF engine = "RegisterReading"
                      THEN matches(schema[k], chunk)
                      ELSE begins(schema[k], chunk))
                  THEN schema[k]
                  ELSE "Default"

\* __find_starting_register / __find_starting_block: the loop over the
\* allowed types from index k on.
RECURSIVE FindFrom(_, _)
FindFrom(k, chunk) ==
    IF k > Len(schema) THEN "Default"
    ELSE IF (IF engine = "RegisterReading"
             THEN matches(schema[k], chunk)
             ELSE begins(schema[k], chunk))
         THEN schema[k]
         ELSE FindFrom(k + 1, chunk)

find_starting(chunk) == FindFrom(1, chunk)

Ok(e) == [kind |-> "ok", end |-> e]
Raise == [kind |-> "raise", end |-> 0]
Hang == [kind |-> "hang", end |-> 0]

\* One readline() at offset p.
ReadlineAt(p) ==
    LET e == ReadlineEnd(content, p)
    IN  IF Raises(p, e) THEN Raise ELSE Ok(e)

\* DefaultRegister.read: a line in TEXT storage, nothing in BINARY storage.
DefaultRegisterRead(p) ==
    IF storage # "BINARY" THEN ReadlineAt(p) ELSE Ok(p)

\* Register.read: factory(storage).read(file, IDENTIFIER_DIGITS + line.size)
\* is a readline in TEXT storage and a read of that many bytes in BINARY.
RegisterRead(t, p) ==
    IF storage = "BINARY"
    THEN Ok(ReadEnd(content, p, IDENTIFIER_DIGITS(t) + LineSize(t)))
    ELSE ReadlineAt(p)

\* DefaultBlock.read: file.readline()
DefaultBlockRead(p) == ReadlineAt(p)

\* A concrete block's read: readline until a line on which ends() holds; at
\* EOF readline keeps returning the empty line and the loop never exits.
RECURSIVE BlockRead(_, _)
BlockRead(t, p) ==
    LET e == ReadlineEnd(content, p)
    IN  IF Raises(p, e) THEN Raise
        ELSE IF e = p THEN Hang
        ELSE IF ends(t, Chunk(p, e)) THEN Ok(e)
        ELSE BlockRead(t, e)

\* record.read(file, storage) of a record of type t at offset p.
RecordRead(t, p) ==
    IF engine = "RegisterReading"
    THEN (IF t = "Default" THEN DefaultRegisterRead(p) ELSE RegisterRead(t, p))
    ELSE (IF t = "Default" THEN DefaultBlockRead(p) ELSE BlockRead(t, p))

\* The data a record of type t holds after reading the units (p, e]: None
\* for a DefaultRegister in BINARY storage, the values of the LINE fields
\* (the identifier dropped) for a register, the text read otherwise.
RecordData(t, p, e) ==
    IF engine = "RegisterReading" /\ t = "Default" /\ storage = "BINARY"
    THEN NoneData
    ELSE IF engine = "RegisterReading" /\ t # "Default"
    THEN Tail(LineRead(<<identifier_field(t)>> \o LINE(t), Chunk(p, e), storage))
    ELSE Chunk(p, e)

\* Repository.__enter__: a stream the repository opens itself (wrap) counts
\* as opened by the engine; a stream of the caller does not.
Opened(o, wrap) == IF wrap THEN o + 1 ELSE o

\* An __exit__ that leaves the stream open.
Closed_LeftOpen(o, wrap) == o

\* Repository.__exit__: the stream the repository opened is closed.
Closed(o, wrap) == IF wrap THEN o - 1 ELSE o

\* The probe of __read_line_with_backup: repository.read(linesize).
ProbeEndAt(p) ==
    IF storage = "BINARY"
    THEN ReadEnd(content, p, linesize)
    ELSE ReadlineEnd(content, p)

ProbeEnd == ProbeEndAt(pos)

\* A probe that saves the position after reading instead of before.
read_line_with_backup_SavesAfter ==
    /\ pc = "probe"
    /\ ~Raises(pos, ProbeEnd)
    /\ last_position_filepointer' = ProbeEnd
    /\ line' = Chunk(pos, ProbeEnd)
    /\ pos' = ProbeEnd
    /\ pc' = IF ProbeEnd = pos THEN "done" ELSE "restore"
    /\ opened' = IF ProbeEnd = pos THEN Closed(opened, TRUE) ELSE opened
    /\ UNCHANGED <<engine, storage, schema, linesize, content, encodings, attempt, log>>
    /\ UNCHANGED cvars
    /\ UNCHANGED xvars

\* __read_line_with_backup: save the position, read the probe unit; an empty
\* probe ends __read_file.
read_line_with_backup ==
    /\ pc = "probe"
    /\ ~Raises(pos, ProbeEnd)
    /\ last_position_filepointer' = pos
    /\ line' = Chunk(pos, ProbeEnd)
    /\ pos' = ProbeEnd
    /\ pc' = IF ProbeEnd = pos THEN "done" ELSE "restore"
    /\ opened' = IF ProbeEnd = pos THEN Closed(opened, TRUE) ELSE opened
    /\ UNCHANGED <<engine, storage, schema, linesize, content, encodings, attempt, log>>
    /\ UNCHANGED cvars
    /\ UNCHANGED xvars

\* A pushback that does not seek: the probed unit stays consumed.
restore_previous_line_NoSeek ==
    /\ pc = "restore"
    /\ pos' = pos
    /\ pc' = "read"
    /\ UNCHANGED <<engine, storage, schema, linesize, content, encodings, attempt,
                   last_position_filepointer, line, log, opened>>
    /\ UNCHANGED cvars
    /\ UNCHANGED xvars

\* __restore_previous_line: seek back to the saved position.
restore_previous_line ==
    /\ pc = "restore"
    /\ pos' = last_position_filepointer
    /\ pc' = "read"
    /\ UNCHANGED <<engine, storage, schema, linesize, content, encodings, attempt,
                   last_position_filepointer, line, log, opened>>
    /\ UNCHANGED cvars
    /\ UNCHANGED xvars

\* The rest of one iteration of __read_file: classify the probed chunk,
\* instantiate the type, let the record read itself, append it.
read_record ==
    /\ pc = "read"
    /\ Cardinality(used) < 1 + MaxRecords
    /\ LET t == find_starting(line)
           r == RecordRead(t, pos)
       IN  /\ r.kind = "ok"
           /\ \E new \in Nodes :
               /\ Construct(new, t, RecordData(t, pos, r.end))
               /\ AddAfterLinks(head, new)
               /\ live' = live \cup {new}
               /\ lastOp' = [op |-> "append", ref |-> head, new |-> new]
               /\ log' = log \o <<[node |-> new, type |-> t, chunk |-> line,
                                   start |-> pos, end |-> r.end,
                                   attempt |-> attempt]>>
           /\ pos' = r.end
    /\ pc' = "probe"
    /\ UNCHANGED <<variant, engine, storage, schema, linesize, content, encodings,
                   attempt, last_position_filepointer, line, opened>>
    /\ UNCHANGED xvars

\* A concrete block whose end pattern never comes: its read never returns.
read_hangs ==
    /\ pc = "read"
    /\ RecordRead(find_starting(line), pos).kind = "hang"
    /\ pc' = "hang"
    /\ UNCHANGED <<engine, storage, schema, linesize, content, encodings, attempt,
                   pos, last_position_filepointer, line, log, opened>>
    /\ UNCHANGED cvars
    /\ UNCHANGED xvars

\* A File.read that gives up at the first decode error.
decode_error_GivesUp ==
    /\ \/ pc = "probe" /\ Raises(pos, ProbeEnd)
       \/ pc = "read" /\ RecordRead(find_starting(line), pos).kind = "raise"
    /\ pc' = "EncodingWarning"
    /\ opened' = Closed(opened, TRUE)
    /\ UNCHANGED <<engine, storage, schema, linesize, content, encodings, attempt,
                   pos, last_position_filepointer, line, log>>
    /\ UNCHANGED cvars
    /\ UNCHANGED xvars

\* File.read: a UnicodeDecodeError raised by the probe or by a record's read
\* leaves __read_file, closes the stream and is caught; the loop over
\* cls.ENCODING calls reader.read again, on the same reader, with the next
\* encoding, or raises EncodingWarning when none is left.
decode_error ==
    /\ \/ pc = "probe" /\ Raises(pos, ProbeEnd)
       \/ pc = "read" /\ RecordRead(find_starting(line), pos).kind = "raise"
    /\ IF attempt < Len(encodings)
       THEN /\ attempt' = attempt + 1
            /\ pos' = 0
            /\ pc' = "probe"
            /\ opened' = Opened(Closed(opened, TRUE), TRUE)
       ELSE /\ pc' = "EncodingWarning"
            /\ opened' = Closed(opened, TRUE)
            /\ UNCHANGED <<attempt, pos>>
    /\ UNCHANGED <<engine, storage, schema, linesize, content, encodings,
                   last_position_filepointer, line, log>>
    /\ UNCHANGED cvars
    /\ UNCHANGED xvars

\* All sequences over S of length at most n.
RECURSIVE SeqsUpTo(_, _)
SeqsUpTo(S, n) ==
    IF n = 0 THEN {<<>>}
    ELSE LET shorter == SeqsUpTo(S, n - 1)
         IN  shorter \cup {Append(s, x) : s \in {t \in shorter : Len(t) = n - 1}, x \in S}

\* The schemas: the declared types in any order, none twice.
Schemas(T) == {s \in SeqsUpTo(T, Cardinality(T)) : NoRepeat(s)}

\* RegisterReading.__init__ / BlockReading.__init__ and the class attributes
\* of the file: the container starts as the Default root with data "".
InitRead ==
    /\ engine \in Engines
    /\ storage \in Storages
    /\ schema \in Schemas(IF engine = "RegisterReading" THEN RegisterTypes ELSE BlockTypes)
    /\ linesize \in (IF storage = "BINARY" THEN LineSizes ELSE {1})
    /\ content \in SeqsUpTo(Alphabet, MaxLen)
    /\ encodings \in (IF storage = "TEXT" THEN EncodingLists ELSE {<<"utf-8", "latin-1">>})
    /\ attempt = 1
    /\ pc = "probe"
    /\ pos = 0
    /\ last_position_filepointer = 0
    /\ line = <<>>
    /\ log = <<>>
    /\ opened = Opened(0, TRUE)
    /\ InitContainer(IF engine = "RegisterReading" THEN "RegisterData" ELSE "BlockData",
                     "Default", EmptyData)
    /\ InitIdle

NextRead ==
    \/ read_line_with_backup
    \/ restore_previous_line
    \/ read_record
    \/ read_hangs
    \/ decode_error

SpecRead == InitRead /\ [][NextRead]_vars

\* RegisterReading.read called on its own: a UnicodeDecodeError raised by the
\* probe or by a record's read leaves the with block and propagates.
read_raises ==
    /\ \/ pc = "probe" /\ Raises(pos, ProbeEnd)
       \/ pc = "read" /\ RecordRead(find_starting(line), pos).kind = "raise"
    /\ pc' = "UnicodeDecodeError"
    /\ opened' = Closed(opened, TRUE)
    /\ UNCHANGED <<engine, storage, schema, linesize, content, encodings, attempt,
                   pos, last_position_filepointer, line, log>>
    /\ UNCHANGED cvars
    /\ UNCHANGED xvars

\* One engine reading one stream under the encoding it is given.
InitEngine ==
    /\ engine \in Engines
    /\ storage \in Storages
    /\ schema \in Schemas(IF engine = "RegisterReading" THEN RegisterTypes ELSE BlockTypes)
    /\ linesize \in (IF storage = "BINARY" THEN LineSizes ELSE {1})
    /\ content \in SeqsUpTo(Alphabet, MaxLen)
    /\ encodings \in (IF storage = "TEXT" THEN {<<"utf-8">>, <<"latin-1">>} ELSE {<<"utf-8">>})
    /\ attempt = 1
    /\ pc = "probe"
    /\ pos = 0
    /\ last_position_filepointer = 0
    /\ line = <<>>
    /\ log = <<>>
    /\ opened = Opened(0, TRUE)
    /\ InitContainer(IF engine = "RegisterReading" THEN "RegisterData" ELSE "BlockData",
                     "Default", EmptyData)
    /\ InitIdle

NextEngine ==
    \/ read_line_with_backup
    \/ restore_previous_line
    \/ read_record
    \/ read_hangs
    \/ read_raises

SpecEngine == InitEngine /\ [][NextEngine]_vars

\* The section types a file may declare.
SectionTypes == {"S1", "S2"}

\* A section's read, as DefaultSection.read and the concrete sections of the
\* tests define it: one file.readline().
SectionRead(t, p) == ReadlineAt(p)

\* SectionReading.__read_file, the for loop: the next declared type is
\* instantiated, reads itself and is appended. The loop index is the number
\* of sections read so far.
SectionStep(k, after) ==
    /\ engine = "SectionReading"
    /\ pc = "sections"
    /\ k <= Len(schema)
    /\ LET t == schema[k]
           r == SectionRead(t, pos)
       IN  /\ r.kind = "ok"
           /\ \E new \in Nodes :
               /\ Construct(new, t, Chunk(pos, r.end))
               /\ AddAfterLinks(head, new)
               /\ live' = live \cup {new}
               /\ lastOp' = [op |-> "append", ref |-> head, new |-> new]
               /\ log' = log \o <<[node |-> new, type |-> t, chunk |-> <<>>,
                                   start |-> pos, end |-> r.end,
                                   attempt |-> attempt]>>
           /\ pos' = r.end
    /\ pc' = IF after >= Len(schema) THEN "probe" ELSE "sections"
    /\ UNCHANGED <<variant, engine, storage, schema, linesize, content, encodings,
                   attempt, last_position_filepointer, line, opened>>
    /\ UNCHANGED xvars

\* A for loop that stops after the first declared type.
read_declared_section_FirstOnly == SectionStep(Len(log) + 1, Len(schema))

read_declared_section == SectionStep(Len(log) + 1, Len(log) + 1)

\* SectionReading.__read_file, the while loop after a non-empty probe has
\* been pushed back: a DefaultSection reads itself and is appended.
read_default_section ==
    /\ engine = "SectionReading"
    /\ pc = "read"
    /\ Cardinality(used) < 1 + MaxRecords
    /\ LET r == SectionRead("Default", pos)
       IN  /\ r.kind = "ok"
           /\ \E new \in Nodes :
               /\ Construct(new, "Default", Chunk(pos, r.end))
               /\ AddAfterLinks(head, new)
               /\ live' = live \cup {new}
               /\ lastOp' = [op |-> "append", ref |-> head, new |-> new]
               /\ log' = log \o <<[node |-> new, type |-> "Default", chunk |-> line,
                                   start |-> pos, end |-> r.end,
                                   attempt |-> attempt]>>
           /\ pos' = r.end
    /\ pc' = "probe"
    /\ UNCHANGED <<variant, engine, storage, schema, linesize, content, encodings,
                   attempt, last_position_filepointer, line, opened>>
    /\ UNCHANGED xvars

\* SectionReading.read: a UnicodeDecodeError raised by a section's read or
\* by the probe leaves the with block and propagates.
section_raises ==
    /\ engine = "SectionReading"
    /\ \/ pc = "probe" /\ Raises(pos, ProbeEnd)
       \/ pc = "read" /\ SectionRead("Default", pos).kind = "raise"
       \/ pc = "sections" /\ SectionRead(schema[Len(log) + 1], pos).kind = "raise"
    /\ pc' = "UnicodeDecodeError"
    /\ opened' = Closed(opened, TRUE)
    /\ UNCHANGED <<engine, storage, schema, linesize, content, encodings, attempt,
                   pos, last_position_filepointer, line, log>>
    /\ UNCHANGED cvars
    /\ UNCHANGED xvars

\* SectionReading.__init__ and read: the container starts as the
\* DefaultSection root with data "", the declared types are read first.
InitSection ==
    /\ engine = "SectionReading"
    /\ storage \in Storages
    /\ schema \in Schemas(SectionTypes)
    /\ linesize \in (IF storage = "BINARY" THEN LineSizes ELSE {1})
    /\ content \in SeqsUpTo(Alphabet, MaxLen)
    /\ encodings \in (IF storage = "TEXT" THEN {<<"utf-8">>, <<"latin-1">>} ELSE {<<"utf-8">>})
    /\ attempt = 1
    /\ pc = IF schema = <<>> THEN "probe" ELSE "sections"
    /\ pos = 0
    /\ last_position_filepointer = 0
    /\ line = <<>>
    /\ log = <<>>
    /\ opened = Opened(0, TRUE)
    /\ InitContainer("SectionData", "Default", EmptyData)
    /\ InitIdle

NextSection ==
    \/ read_declared_section
    \/ read_line_with_backup
    \/ restore_previous_line
    \/ read_default_section
    \/ section_raises

SpecSection == InitSection /\ [][NextSection]_vars

\* ------------------------------------------- container claims C1..C4, C23

\* C1: after any sequence of append, preppend, add_before, add_after and
\* remove, iterating from first via next visits every live node (added and
\* not since removed) exactly once, and len(container) is the visit count.
C1_IterationVisitsLiveNodesOnce ==
    engine = "none" =>
        /\ \A n \in live : Cardinality({i \in 1..Len(Iter) : Iter[i] = n}) = 1
        /\ ContainerLen = Len(Iter)

\* C2: for all nodes a and b reachable from first, a.next is b if and only
\* if b.previous is a.
C2_LinksMutuallyConsistent ==
    engine = "none" =>
        \A a, b \in SeqSet(Iter) : (next[a] = b) <=> (previous[b] = a)

\* C3: first has no previous node and last is the final node reached by
\* following next from first.
C3_FirstAndLastAreTheEnds ==
    engine = "none" =>
        /\ previous[root] = None
        /\ Iter[Len(Iter)] = head
        /\ next[head] = None

\* The sequence s without the element x, order kept.
RECURSIVE Without(_, _)
Without(s, x) ==
    IF s = <<>> THEN <<>>
    ELSE IF Head(s) = x THEN Without(Tail(s), x)
    ELSE <<Head(s)>> \o Without(Tail(s), x)

\* C4: remove(node) of any node in the container leaves exactly one fewer
\* node reachable: the node is no longer visited, len decreases by one and
\* the remaining nodes keep their order.
C4_RemoveLeavesOneFewer ==
    [][lastOp'.op = "remove" =>
        /\ lastOp'.ref \notin SeqSet(Iter')
        /\ ContainerLen' = ContainerLen - 1
        /\ Iter' = Without(Iter, lastOp'.ref)]_vars

\* C23: add_before(ref, new) changes first if and only if ref is the
\* container's current first node itself (the same node, not merely a node
\* that compares equal to it), and add_after(ref, new) changes last if and
\* only if ref is the current last node itself; in every other case first
\* and last are unchanged, new is linked immediately adjacent to ref, and
\* ref's former neighbour is relinked to new.
C23_AddMovesEndsOnlyForTheEndItself ==
    [][used' # used =>
        LET ref == lastOp'.ref
            new == lastOp'.new
        IN  /\ lastOp'.op = "add_before" =>
                /\ (root' # root) <=> (ref = root)
                /\ head' = head
                /\ next'[new] = ref /\ previous'[ref] = new
                /\ previous'[new] = previous[ref]
                /\ previous[ref] # None => next'[previous[ref]] = new
            /\ lastOp'.op = "add_after" =>
                /\ (head' # head) <=> (ref = head)
                /\ root' = root
                /\ previous'[new] = ref /\ next'[ref] = new
                /\ next'[new] = next[ref]
                /\ next[ref] # None => previous'[next[ref]] = new]_vars

\* ------------------------------------------------- reading claims C5..C10

\* The reads of the attempt that is under way.
Reads == SelectSeq(log, LAMBDA e : e.attempt = attempt)

\* How many record reads of this attempt consumed the unit at offset i.
Consumers(i) == Cardinality({k \in 1..Len(Reads) : Reads[k].start < i /\ i <= Reads[k].end})

RECURSIVE Consumed(_)
Consumed(rs) == IF rs = <<>> THEN 0 ELSE (Head(rs).end - Head(rs).start) + Consumed(Tail(rs))

\* C5: when the Reading Engine finishes, every unit of the stream has been
\* consumed by exactly one record's read, and the total consumed equals the
\* stream length.
C5_EveryUnitConsumedOnce ==
    pc = "done" =>
        /\ \A i \in 1..Len(content) : Consumers(i) = 1
        /\ Consumed(Reads) = Len(content)

C5_Witness ==
    /\ pc = "done"
    /\ Len(Reads) >= 2
    /\ \E k \in 1..Len(Reads) : Reads[k].type # "Default"
    /\ \E k \in 1..Len(Reads) : Reads[k].type = "Default"

\* C6: in every iteration where no candidate type matches the probed chunk,
\* the Default record's read advances the stream position by at least one
\* unit (so the loop reaches the end of a finite stream).
C6_DefaultReadAdvances ==
    \A k \in 1..Len(log) : log[k].type = "Default" => log[k].end > log[k].start

\* The records one clean read of the content produces from offset p on under
\* the encoding in use: the loop of __read_file on a fresh container.
RECURSIVE CleanRead(_, _)
CleanRead(p, fuel) ==
    IF fuel = 0 \/ ProbeEndAt(p) = p THEN <<>>
    ELSE LET t == find_starting(Chunk(p, ProbeEndAt(p)))
             r == RecordRead(t, p)
         IN  IF r.kind # "ok" THEN <<>>
             ELSE <<[cls |-> t, data |-> RecordData(t, p, r.end)]>>
                      \o CleanRead(r.end, fuel - 1)

\* The records of the container after its root, as class and data.
Records == [k \in 1..(Len(Iter) - 1) |-> [cls |-> cls[Iter[k + 1]], data |-> data[Iter[k + 1]]]]

\* C7: after a decode error part-way through the read under one encoding,
\* the container File.read returns holds exactly the records one clean read
\* under the succeeding encoding produces.
C7_RetryStartsFromScratch ==
    (pc = "done" /\ attempt > 1) => Records = CleanRead(0, MaxRecords + 1)

\* C8: the type instantiated for a probed chunk is the first type in the
\* schema's declared order whose matches/begins test succeeds on the chunk,
\* and the Default type when none does; no error is raised for a miss.
Candidate(t, chunk) ==
    IF engine = "RegisterReading" THEN matches(t, chunk) ELSE begins(t, chunk)

C9_ClassificationDoesNotConsume ==
    pc = "read" =>
        /\ pos = last_position_filepointer
        /\ pos = (IF Reads = <<>> THEN 0 ELSE Reads[Len(Reads)].end)

C9_Witness ==
    /\ pc = "read"
    /\ Reads # <<>>
    /\ pos > 0
    /\ Len(line) > 0

\* RegisterReading.empty
empty == ContainerLen = 1

\* C10: after a Reading Engine has read a stream of N records the
\* container has N + 1 nodes: the Default root with empty data as first,
\* then the N records in stream order; empty holds exactly when N = 0.
C10_RootThenRecordsInOrder ==
    pc = "done" =>
        /\ root = 1 /\ cls[1] = "Default" /\ data[1] = EmptyData
        /\ ContainerLen = Len(log) + 1
        /\ \A k \in 1..Len(log) :
            /\ Iter[k + 1] = log[k].node
            /\ k > 1 => log[k - 1].end <= log[k].start
            /\ cls[log[k].node] = log[k].type
            /\ data[log[k].node] = RecordData(log[k].type, log[k].start, log[k].end)
        /\ empty <=> Len(log) = 0
        /\ head = Iter[Len(Iter)]

C10_Witness ==
    /\ pc = "done"
    /\ Len(log) >= 2
    /\ ~empty
    /\ \E k \in 1..Len(log) : log[k].type # "Default"

C10_WitnessEmpty ==
    pc = "done" /\ empty /\ Len(log) = 0

\* ------------------------------------------------------- file versions

\* The version labels a file class declares, and the versions a caller asks
\* for: strings over the characters "1" and "2".
Labels == {<<"1">>, <<"1", "2">>, <<"2">>, <<"2", "1">>}
Requests == Labels \cup {<<>>, <<"1", "1">>, <<"2", "2">>}

\* ord(c): the code point Python's str comparison goes by.
Ord(c) == IF c = "1" THEN 49 ELSE 50

\* a <= b on Python strings: code point by code point, a proper prefix first.
RECURSIVE StrLeq(_, _)
StrLeq(a, b) ==
    IF a = <<>> THEN TRUE
    ELSE IF b = <<>> THEN FALSE
    ELSE IF Ord(Head(a)) < Ord(Head(b)) THEN TRUE
    ELSE IF Ord(Head(a)) > Ord(Head(b)) THEN FALSE
    ELSE StrLeq(Tail(a), Tail(b))

\* sorted(list(keys))
RECURSIVE Sorted(_)
Sorted(S) ==
    IF S = {} THEN <<>>
    ELSE LET m == CHOOSE x \in S : \A y \in S : StrLeq(x, y)
         IN  <<m>> \o Sorted(S \ {m})

\* A resolution that takes the oldest of the recent versions.
find_closest_version_First(v) ==
    LET available_versions == Sorted(DOMAIN VERSIONS)
        recent_versions == SelectSeq(available_versions, LAMBDA version : StrLeq(version, v))
    IN  IF Len(recent_versions) > 0
        THEN recent_versions[1]
        ELSE NoneData

\* set_version.__find_closest_version: the last of the sorted labels that
\* v is >= to, or None.
find_closest_version(v) ==
    LET available_versions == Sorted(DOMAIN VERSIONS)
        recent_versions == SelectSeq(available_versions, LAMBDA version : StrLeq(version, v))
    IN  IF Len(recent_versions) > 0
        THEN recent_versions[Len(recent_versions)]
        ELSE NoneData

\* File.set_version(v)
set_version(v) ==
    /\ Len(calls) < MaxCalls
    /\ LET closest_version == find_closest_version(v)
       IN  /\ IF closest_version # NoneData
              THEN /\ VERSION' = v
                   /\ REGISTERS' = VERSIONS[closest_version]
              ELSE UNCHANGED <<VERSION, REGISTERS>>
           /\ calls' = Append(calls, [v |-> v, before |-> REGISTERS, after |-> REGISTERS'])
    /\ UNCHANGED VERSIONS
    /\ UNCHANGED <<cvars, rvars, fvars, wvars, yvars>>

\* The type lists a file class declares.
TypeLists == {<<"R1">>, <<"R2">>, <<"R1", "R2">>}

\* The class attributes of a versioned file: VERSIONS maps some labels to
\* type lists, REGISTERS is the list declared for the class.
InitVersion ==
    /\ \E D \in SUBSET Labels : VERSIONS \in [D -> TypeLists]
    /\ REGISTERS \in TypeLists
    /\ VERSION = <<"latest">>
    /\ calls = <<>>
    /\ InitContainer("RegisterData", "Default", EmptyData)
    /\ InitIdleReader
    /\ InitNoField
    /\ InitNoWriter
    /\ InitNoComponent

NextVersion == \E v \in Requests : set_version(v)

SpecVersion == InitVersion /\ [][NextVersion]_vars

\* -------------------------------------------------------- version claim C11

\* The labels of VERSIONS that are <= v.
Qualifying(v) == {l \in DOMAIN VERSIONS : StrLeq(l, v)}

\* The largest label of a non-empty set of labels.
Largest(S) == CHOOSE l \in S : \A m \in S : StrLeq(m, l)

\* The calls that had a qualifying label.
QualifyingCalls == SelectSeq(calls, LAMBDA c : Qualifying(c.v) # {})

\* C11: set_version(v) makes the active type list the list mapped to the
\* lexicographically largest label <= v; when no label is <= v the active
\* list is left as it was; so after any sequence of calls the active list is
\* the one selected by the most recent call that had a qualifying label.
C11_SetVersionSelectsClosest ==
    /\ \A k \in 1..Len(calls) :
        LET c == calls[k]
        IN  IF Qualifying(c.v) # {}
            THEN c.after = VERSIONS[Largest(Qualifying(c.v))]
            ELSE c.after = c.before
    /\ \A k \in 2..Len(calls) : calls[k].before = calls[k - 1].after
    /\ Len(calls) > 0 =>
        REGISTERS = (IF QualifyingCalls = <<>>
                     THEN calls[1].before
                     ELSE VERSIONS[Largest(Qualifying(QualifyingCalls[Len(QualifyingCalls)].v))])

\* A call between two declared labels took the lower label's list, and a
\* later call below the smallest label left it in place.
C11_Witness ==
    /\ Len(calls) = 2
    /\ Cardinality(Qualifying(calls[1].v)) = 1
    /\ Cardinality(DOMAIN VERSIONS) = 2
    /\ calls[1].v \notin DOMAIN VERSIONS
    /\ calls[1].after # calls[1].before
    /\ Qualifying(calls[2].v) = {}
    /\ REGISTERS = calls[1].after

\* --------------------------------------------------------- field checks

\* The fields, values and lines Field.read and Field.write are applied to.
Sizes == {2, 3}
Positions == {0, 1}
DateFormats == {<<"%m/%d">>, <<"%d-%m", "%m/%d">>}
Fields ==
    {LiteralField(s, p) : s \in Sizes, p \in Positions}
        \cup {IntegerField(s, p) : s \in Sizes, p \in Positions}
        \cup {FloatField(s, p, 1, fmt) : s \in Sizes, p \in Positions, fmt \in {"F", "E"}}
        \cup {DatetimeField(s, 0, fmt) : s \in {3, 5}, fmt \in DateFormats}

\* None, values whose rendering fits the sizes, and values whose rendering
\* is longer.
Values(kind, st) ==
    {NoneValue} \cup
    CASE kind = "Literal" -> {StrValue(<<"a">>), StrValue(<<"a", "b">>), StrValue(<<"a", "b", "a">>),
                              StrValue(<<"a", "b", "a", "b">>)}
      [] kind = "Integer" -> {IntValue(7), IntValue(-1), IntValue(12), IntValue(123), IntValue(1234)}
      [] kind = "Float" -> {FloatValue(0, 0), FloatValue(5, 1), FloatValue(15, 1), FloatValue(-2, 0)}
                              \cup (IF st = "TEXT"
                                    THEN {FloatValue(1234, 2), FloatValue(-1234, 1)}
                                    ELSE {})
      [] kind = "Datetime" -> {DateValue(1, 2), DateValue(12, 31)}

\* The characters of the text lines and the bytes of the binary lines.
FieldAlphabet(st) ==
    IF st = "TEXT" THEN {" ", "1", "-", ".", "/", "a"}
    ELSE {" ", "1", "/", "x", Byte(0)}

\* Field.write(line) of a field that holds a value of its kind.
field_write ==
    /\ fpc = "ready"
    /\ ~WriteRaises(field, fieldvalue)
    /\ written' = FieldWrite(field, fieldvalue, fieldline, storage)
    /\ fpc' = "written"
    /\ UNCHANGED <<field, fieldvalue, fieldline, returned>>
    /\ UNCHANGED <<cvars, rvars, vvars, wvars, yvars>>

\* Field.read(line): the value is stored in the field and returned, or the
\* exception of the kind's read propagates.
field_read ==
    /\ fpc = "ready"
    /\ LET r == FieldRead(field, fieldline, storage)
       IN  IF r.raises = "no"
           THEN /\ fieldvalue' = r.value
                /\ returned' = r.value
                /\ fpc' = "read"
           ELSE /\ fpc' = r.raises
                /\ UNCHANGED <<fieldvalue, returned>>
    /\ UNCHANGED <<field, fieldline, written>>
    /\ UNCHANGED <<cvars, rvars, vvars, wvars, yvars>>

InitField ==
    /\ storage \in Storages
    /\ field \in Fields
    /\ fieldvalue \in Values(field.kind, storage)
    /\ fieldline \in SeqsUpTo(FieldAlphabet(storage), MaxLen)
    /\ written = <<>>
    /\ returned = NoneValue
    /\ fpc = "ready"
    /\ engine = "none" /\ schema = <<>> /\ linesize = 1 /\ content = <<>>
    /\ encodings = <<"utf-8">> /\ attempt = 1 /\ pc = "idle" /\ pos = 0
    /\ last_position_filepointer = 0 /\ line = <<>> /\ log = <<>> /\ opened = 0
    /\ InitContainer("RegisterData", "Default", EmptyData)
    /\ InitNoVersions
    /\ InitNoWriter
    /\ InitNoComponent

NextField == field_write \/ field_read

SpecField == InitField /\ [][NextField]_vars

\* ------------------------------------------------- field claims C18, C19

Max(a, b) == IF a >= b THEN a ELSE b

\* C18: for every field kind, storage, value (absent, fitting or rendered
\* longer than the field) and input line, field.write(line) replaces exactly
\* field.size positions: the result has length max(len(line), end) and only
\* the positions [start, end) differ from the blank padded line.
C18_WriteReplacesExactlySize ==
    fpc = "written" =>
        LET padded == Ljust(fieldline, field.ending_position)
        IN  /\ Len(written) = Max(Len(fieldline), field.ending_position)
            /\ \A i \in 1..Len(padded) :
                (i <= field.starting_position \/ i > field.ending_position)
                    => (i <= Len(written) /\ written[i] = padded[i])

\* The slice is malformed for the field: the read of the field's kind raises.
Malformed ==
    (IF storage = "BINARY" THEN BinaryRead(field, fieldline)
     ELSE TextualRead(field, fieldline)).raises # "no"

\* C19: Field.read never raises on malformed content, whatever the kind and
\* the storage: it sets the value to None and returns None.
C19_ReadMalformedGivesNone ==
    /\ fpc \in {"ready", "written", "read"}
    /\ (fpc = "read" /\ Malformed) => (returned = NoneValue /\ fieldvalue = NoneValue)

\* A binary literal field has read bytes that are not UTF-8.
C19_Witness ==
    /\ fpc = "read"
    /\ storage = "BINARY"
    /\ field.kind = "Literal"
    /\ \E i \in (field.starting_position + 1)..Min(field.ending_position, Len(fieldline)) :
        fieldline[i] = "x"
    /\ returned = NoneValue

\* ------------------------------------------------------- writing engines

\* An empty that holds as soon as one element of data is None.
register_empty_AnyNone(d) == \E i \in 1..Len(d) : d[i] = NoneValue

\* Register.empty: no element of data is other than None.
register_empty(d) == \A i \in 1..Len(d) : d[i] = NoneValue

\* The loop of __positional_writing and of BinaryRepository.write: every
\* field writes itself over the line the fields before it built.
RECURSIVE PositionalWriting(_, _, _, _)
PositionalWriting(fields, values, buf, st) ==
    IF fields = <<>> THEN buf
    ELSE PositionalWriting(Tail(fields), Tail(values),
                           FieldWrite(Head(fields), Head(values), buf, st), st)

\* Line.write, positional: the textual line ends with a newline, the
\* binary line does not.
LineWrite(fields, values, st) ==
    IF st = "BINARY"
    THEN PositionalWriting(fields, values, <<>>, st)
    ELSE PositionalWriting(fields, values, <<>>, st) \o <<"n">>

\* Register.write: nothing for an empty register, else the line of the
\* class's IDENTIFIER and the data.
RegisterWrite(t, d, st) ==
    IF register_empty(d) THEN <<>>
    ELSE LineWrite(<<identifier_field(t)>> \o LINE(t),
                   <<StrValue(<<IDENTIFIER(t)>>)>> \o d, st)

\* record.write(file, storage) of node n: what the record hands to
\* file.write. A DefaultRegister writes its data unless the storage is
\* BINARY; a DefaultSection writes its data.
RecordWrite(n) ==
    IF variant = "RegisterData"
    THEN (IF cls[n] = "Default"
          THEN (IF storage # "BINARY" THEN data[n] ELSE <<>>)
          ELSE RegisterWrite(cls[n], data[n], storage))
    ELSE data[n]

\* str.encode: the character "e" is the byte "x" in latin-1 and two bytes in
\* utf-8; the newline is written as it is (os.linesep of POSIX).
RECURSIVE Encode(_, _)
Encode(enc, s) ==
    IF s = <<>> THEN <<>>
    ELSE (IF Head(s) = "e"
          THEN (IF enc = "latin-1" THEN <<"x">> ELSE <<Byte(195), Byte(169)>>)
          ELSE <<Head(s)>>) \o Encode(enc, Tail(s))

\* The file open(to, "w", encoding) encodes the text of each write; the
\* file open(to, "wb") and the caller's buffer take it as it is.
Encodes == storage = "TEXT" /\ to = "path"

\* file.write(s) raises UnicodeEncodeError: ascii has no code for "e".
StreamWriteRaises(s) == Encodes /\ wencoding = "ascii" /\ \E i \in 1..Len(s) : s[i] = "e"

\* What file.write(s) adds to the destination.
StreamWrite(s) == IF Encodes THEN Encode(wencoding, s) ELSE s

\* RegisterWriting.write / SectionWriting.write up to the first iteration:
\* the repository is built for the destination and entered.
write_open(dest, enc) ==
    /\ pc \in {"idle", "done"}
    /\ variant \in {"RegisterData", "SectionData"}
    /\ to' = dest
    /\ wencoding' = enc
    /\ cursor' = root
    /\ out' = <<>>
    /\ wlog' = <<>>
    /\ opened' = Opened(opened, dest = "path")
    /\ pc' = "writing"
    /\ UNCHANGED <<engine, storage, schema, linesize, content, encodings, attempt,
                   pos, last_position_filepointer, line, log>>
    /\ UNCHANGED <<cvars, vvars, fvars, yvars>>

\* An iteration that steps over the record after the one it wrote.
write_record_SkipsNext ==
    /\ pc = "writing"
    /\ cursor # None
    /\ ~StreamWriteRaises(RecordWrite(cursor))
    /\ out' = out \o StreamWrite(RecordWrite(cursor))
    /\ wlog' = Append(wlog, [node |-> cursor, emitted |-> RecordWrite(cursor),
                             raised |-> FALSE])
    /\ cursor' = IF next[cursor] # None THEN next[next[cursor]] ELSE None
    /\ UNCHANGED <<to, wencoding>>
    /\ UNCHANGED <<cvars, rvars, vvars, fvars, yvars>>

\* One iteration of __write_file: the record under the iteration writes
\* itself to the repository's file.
write_record ==
    /\ pc = "writing"
    /\ cursor # None
    /\ ~StreamWriteRaises(RecordWrite(cursor))
    /\ out' = out \o StreamWrite(RecordWrite(cursor))
    /\ wlog' = Append(wlog, [node |-> cursor, emitted |-> RecordWrite(cursor),
                             raised |-> FALSE])
    /\ cursor' = next[cursor]
    /\ UNCHANGED <<to, wencoding>>
    /\ UNCHANGED <<cvars, rvars, vvars, fvars, yvars>>

\* A record's write raises: the exception leaves the with block, which
\* exits the repository, and propagates.
write_raises ==
    /\ pc = "writing"
    /\ cursor # None
    /\ StreamWriteRaises(RecordWrite(cursor))
    /\ wlog' = Append(wlog, [node |-> cursor, emitted |-> <<>>, raised |-> TRUE])
    /\ pc' = "UnicodeEncodeError"
    /\ opened' = Closed(opened, to = "path")
    /\ UNCHANGED <<to, wencoding, cursor, out>>
    /\ UNCHANGED <<engine, storage, schema, linesize, content, encodings, attempt,
                   pos, last_position_filepointer, line, log>>
    /\ UNCHANGED <<cvars, vvars, fvars, yvars>>

\* The iteration is over: the with block exits the repository.
write_close ==
    /\ pc = "writing"
    /\ cursor = None
    /\ pc' = "written"
    /\ opened' = Closed(opened, to = "path")
    /\ UNCHANGED <<to, wencoding, cursor, out, wlog>>
    /\ UNCHANGED <<engine, storage, schema, linesize, content, encodings, attempt,
                   pos, last_position_filepointer, line, log>>
    /\ UNCHANGED <<cvars, vvars, fvars, yvars>>

Destinations == {"path", "buffer"}
WriteEncodings == {"utf-8", "ascii"}

\* The records a caller builds to write: default records that hold text,
\* registers whose data are all None, partly None or all set, a register of
\* a type without fields, and a register that holds a non-ascii character.
WriteKinds(v) ==
    IF v = "RegisterData"
    THEN {[cls |-> "Default", data |-> <<"a", "n">>],
          [cls |-> "R1", data |-> <<StrValue(<<"b">>)>>],
          [cls |-> "R1", data |-> <<StrValue(<<"e">>)>>],
          [cls |-> "R1", data |-> <<NoneValue>>],
          [cls |-> "R2", data |-> <<>>],
          [cls |-> "R3", data |-> <<IntValue(7), NoneValue>>],
          [cls |-> "R3", data |-> <<NoneValue, NoneValue>>]}
    ELSE {[cls |-> "Default", data |-> <<"a", "n">>],
          [cls |-> "Default", data |-> <<"e">>]}

\* A container a caller builds record by record and a writing engine
\* writes.
InitWrite ==
    /\ \E v \in {"RegisterData", "SectionData"} :
        \E k \in WriteKinds(v) : InitContainer(v, k.cls, k.data)
    /\ engine = "none"
    /\ storage \in Storages
    /\ schema = <<>>
    /\ linesize = 1
    /\ content = <<>>
    /\ encodings = <<"utf-8">>
    /\ attempt = 1
    /\ pc = "idle"
    /\ pos = 0
    /\ last_position_filepointer = 0
    /\ line = <<>>
    /\ log = <<>>
    /\ opened = 0
    /\ InitIdle

NextWrite ==
    \/ \E k \in WriteKinds(variant) : preppend(k.cls, k.data)
    \/ \E k \in WriteKinds(variant) : append(k.cls, k.data)
    \/ \E dest \in Destinations, enc \in WriteEncodings : write_open(dest, enc)
    \/ write_record
    \/ write_raises
    \/ write_close

SpecWrite == InitWrite /\ [][NextWrite]_vars

\* A stream read by one engine and the container it built written by the
\* writing engine of the same kind, under the encoding of the read or ascii.
NextCopy ==
    \/ read_line_with_backup
    \/ restore_previous_line
    \/ read_record
    \/ read_hangs
    \/ read_raises
    \/ \E dest \in Destinations, enc \in {Encoding, "ascii"} : write_open(dest, enc)
    \/ write_record
    \/ write_raises
    \/ write_close

SpecCopy == InitEngine /\ [][NextCopy]_vars

\* ------------------------------------------- writing claims C12, C16, C17

\* The encodings of the values by their fields, one after another.
RECURSIVE Renderings(_, _, _)
Renderings(fields, values, st) ==
    IF fields = <<>> THEN <<>>
    ELSE (IF st = "BINARY"
          THEN BinaryWrite(Head(fields), Head(values))
          ELSE TextualWrite(Head(fields), Head(values)))
             \o Renderings(Tail(fields), Tail(values), st)

\* The calls of write on registers of declared types that returned.
RegisterWrites ==
    {k \in 1..Len(wlog) :
        variant = "RegisterData" /\ cls[wlog[k].node] # "Default" /\ ~wlog[k].raised}

\* C12: Register.write emits nothing when every element of the register's
\* data is None, and otherwise emits exactly one line: the class's
\* IDENTIFIER first, in the identifier field, followed by the encoded
\* fields, and in TEXT storage the one newline that ends the line.
C12_RegisterWriteEmitsIdentifierLine ==
    \A k \in RegisterWrites :
        LET t == cls[wlog[k].node]
            d == data[wlog[k].node]
            emitted == wlog[k].emitted
            body == Renderings(<<identifier_field(t)>>, <<StrValue(<<IDENTIFIER(t)>>)>>, storage)
                        \o Renderings(LINE(t), d, storage)
        IN  IF \A i \in 1..Len(d) : d[i] = NoneValue
            THEN emitted = <<>>
            ELSE /\ emitted[1] = IDENTIFIER(t)
                 /\ emitted = (IF storage = "BINARY" THEN body ELSE body \o <<"n">>)
                 /\ \A i \in 1..Len(body) : body[i] # "n"

\* A written container that held a register with one value set and one
\* None, which gave a line, and a register of the same type with every
\* value None, which gave nothing.
C12_Witness ==
    /\ pc = "written"
    /\ \E k \in RegisterWrites :
        /\ cls[wlog[k].node] = "R3"
        /\ data[wlog[k].node] = <<IntValue(7), NoneValue>>
        /\ Len(wlog[k].emitted) > 0
    /\ \E k \in RegisterWrites :
        /\ cls[wlog[k].node] = "R3"
        /\ data[wlog[k].node] = <<NoneValue, NoneValue>>
        /\ wlog[k].emitted = <<>>

\* The nodes write was called on, in the order of the calls.
WrittenNodes == [k \in 1..Len(wlog) |-> wlog[k].node]

\* What the first k calls of write handed to the destination.
RECURSIVE EmittedUpTo(_)
EmittedUpTo(k) ==
    IF k = 0 THEN <<>> ELSE EmittedUpTo(k - 1) \o StreamWrite(wlog[k].emitted)

C17_StreamClosedOnEveryExit ==
    /\ opened \in {0, 1}
    /\ pc \in {"done", "written", "UnicodeDecodeError", "UnicodeEncodeError"} => opened = 0
    /\ pc \in {"probe", "restore", "read", "hang"} => opened = 1
    /\ pc = "writing" => opened = (IF to = "path" THEN 1 ELSE 0)

\* A read that completed and closed its stream, then a write to a path in
\* which a record's write raised: the stream of the write is closed too.
C17_Witness ==
    /\ pc = "UnicodeEncodeError"
    /\ to = "path"
    /\ Len(log) > 0
    /\ Len(wlog) > 1
    /\ opened = 0

\* ------------------------------------------------- round trip claim C13

\* A TEXT stream in which no declared type matched any line was read to
\* its end by the register engine and the container written to a path
\* under the encoding of the read.
DefaultCopy ==
    /\ pc = "written"
    /\ engine = "RegisterReading"
    /\ storage = "TEXT"
    /\ to = "path"
    /\ wencoding = Encoding
    /\ \A k \in 1..Len(log) : log[k].type = "Default"

\* C13: reading a TEXT input in which no declared type matches any line
\* and writing the resulting container reproduces the input exactly.
C13_DefaultRoundTripReproducesInput ==
    DefaultCopy => out = content

\* ------------------------------------------------------ queries by type

\* The types a query names: the base class of the records ("Record": every
\* record is an instance of it) and the classes of the records.
QueryTypes == {"Record", "Default", "R1"}

\* The values of the filter data=...; None imposes no condition.
Filters == {NoneData, <<"a">>, <<"b">>}

\* isinstance(n, t)
IsInstance(n, t) == t = "Record" \/ cls[n] = t

\* of_type(t): the records of the iteration that are instances of t.
of_type(t) == SelectSeq(Iter, LAMBDA n : IsInstance(n, t))

\* __meets of get_blocks_of_type: every filter whose value is not None
\* compares equal to the record's attribute.
meets(n, f) == f = NoneData \/ data[n] = f

NoResult == [shape |-> "None", nodes |-> <<>>]

\* A get that returns a list also for a single match.
get_of_type_AlwaysList(t, f) ==
    LET filtered == SelectSeq(of_type(t), LAMBDA n : meets(n, f))
    IN  IF Len(filtered) = 0 THEN NoResult
        ELSE [shape |-> "list", nodes |-> filtered]

\* get_blocks_of_type / get_registers_of_type / get_sections_of_type: None,
\* the record, or the list of the records.
get_of_type(t, f) ==
    LET filtered == SelectSeq(of_type(t), LAMBDA n : meets(n, f))
    IN  IF Len(filtered) = 0 THEN NoResult
        ELSE IF Len(filtered) = 1 THEN [shape |-> "record", nodes |-> filtered]
        ELSE [shape |-> "list", nodes |-> filtered]

\* BlockData.remove on the links l = [previous, next].
Removed(l, b) ==
    [next |-> IF l.previous[b] # None
              THEN [l.next EXCEPT ![l.previous[b]] = l.next[b]]
              ELSE l.next,
     previous |-> IF l.next[b] # None
                  THEN [l.previous EXCEPT ![l.next[b]] = l.previous[b]]
                  ELSE l.previous]

\* The loop of remove_blocks_of_type over the list: a record that is not
\* != the root is left alone.
RECURSIVE RemovedAll(_, _)
RemovedAll(l, nodes) ==
    IF nodes = <<>> THEN l
    ELSE RemovedAll(IF ~Eq(Head(nodes), root) THEN Removed(l, Head(nodes)) ELSE l,
                    Tail(nodes))

\* The call get_*_of_type(t, data=f); the container is left as it is.
get_records_of_type(t, f) ==
    /\ engine = "none"
    /\ pc = "idle"
    /\ lastOp' = [op |-> "get_of_type", t |-> t, filter |-> f, before |-> Iter,
                  result |-> get_of_type(t, f)]
    /\ UNCHANGED <<variant, root, head, previous, next, data, cls, used, live>>
    /\ UNCHANGED rvars
    /\ UNCHANGED xvars

\* remove_blocks_of_type / remove_registers_of_type(t, data=f): a single
\* match is removed, the matches of a list are removed unless they compare
\* equal to the root.
remove_records_of_type(t, f) ==
    /\ engine = "none"
    /\ pc = "idle"
    /\ LET filtered == get_of_type(t, f)
           l == IF filtered.shape = "record"
                THEN Removed([previous |-> previous, next |-> next], filtered.nodes[1])
                ELSE RemovedAll([previous |-> previous, next |-> next], filtered.nodes)
       IN  /\ previous' = l.previous
           /\ next' = l.next
           /\ live' = live \ (IF filtered.shape = "record"
                              THEN {filtered.nodes[1]}
                              ELSE {n \in SeqSet(filtered.nodes) : ~Eq(n, root)})
           /\ lastOp' = [op |-> "remove_of_type", t |-> t, filter |-> f, before |-> Iter,
                         result |-> filtered]
    /\ UNCHANGED <<variant, root, head, data, cls, used>>
    /\ UNCHANGED rvars
    /\ UNCHANGED xvars

\* A container built record by record, queried by type and, while nothing
\* has been removed from it, pruned by type.
NextQuery ==
    \/ \E k \in NodeKinds : preppend(k.cls, k.data)
    \/ \E k \in NodeKinds : append(k.cls, k.data)
    \/ \E t \in QueryTypes, f \in Filters : get_records_of_type(t, f)
    \/ live = used /\ \E t \in QueryTypes, f \in Filters : remove_records_of_type(t, f)

SpecQuery == InitData /\ [][NextQuery]_vars

\* ---------------------------------------------------- query claims C14, C15

\* The nodes of the sequence s that are of type t and satisfy the filter f.
Matching(s, t, f) ==
    SelectSeq(s, LAMBDA n : (t = "Record" \/ cls[n] = t) /\ (f = NoneData \/ data[n] = f))

\* C14: get_*_of_type(T, **filters) returns None when no node of type T
\* satisfies the filters, the node itself when exactly one does, and
\* otherwise the list of all such nodes in container order; a filter
\* whose value is None imposes no condition.
C14_GetOfTypeThreeWay ==
    lastOp.op = "get_of_type" =>
        LET M == Matching(Iter, lastOp.t, lastOp.filter)
        IN  /\ Len(M) = 0 => lastOp.result.shape = "None"
            /\ Len(M) = 1 => lastOp.result.shape = "record" /\ lastOp.result.nodes = M
            /\ Len(M) > 1 => lastOp.result.shape = "list" /\ lastOp.result.nodes = M
            /\ lastOp.filter = NoneData =>
                lastOp.result.nodes = SelectSeq(Iter, LAMBDA n : lastOp.t = "Record" \/ cls[n] = lastOp.t)

\* A query with a filter that one record of three meets, the record not
\* the first of its type.
C14_Witness ==
    /\ lastOp.op = "get_of_type"
    /\ lastOp.t = "R1"
    /\ lastOp.filter = <<"b">>
    /\ lastOp.result.shape = "record"
    /\ Len(SelectSeq(Iter, LAMBDA n : cls[n] = "R1")) = 2
    /\ ContainerLen = 3

\* C15: after remove_*_of_type(T, **filters) no node other than the root
\* that is of type T and satisfies the filters is reachable by iteration,
\* the root is still first, and the nodes that do not match keep their
\* relative order.
C15_RemoveOfTypeLeavesNoMatch ==
    lastOp.op = "remove_of_type" =>
        /\ \A n \in SeqSet(Iter) : n # root => n \notin SeqSet(Matching(Iter, lastOp.t, lastOp.filter))
        /\ Iter[1] = root
        /\ LET kept(s) == SelectSeq(s, LAMBDA n : n \notin SeqSet(Matching(s, lastOp.t, lastOp.filter)))
           IN  kept(lastOp.before) = kept(Iter)

\* ------------------------------------------------- encoding claim C20

\* Reading the whole content under the encoding enc meets a byte the
\* encoding cannot decode.
Fails(enc) == storage = "TEXT" /\ \E i \in 1..Len(content) : Undecodable(enc, content[i])

\* C20: the candidate encodings are tried in their declared order: every
\* candidate before the one in use raised a decode error; File.read
\* returns at the first candidate that reads without a decode error, and
\* raises the encoding error, returning nothing, only when every candidate
\* raised a decode error.
C20_EncodingsTriedInOrder ==
    /\ attempt \in 1..Len(encodings)
    /\ \A j \in 1..(attempt - 1) : Fails(encodings[j])
    /\ pc = "done" => ~Fails(Encoding)
    /\ pc = "EncodingWarning" =>
        /\ attempt = Len(encodings)
        /\ \A j \in 1..Len(encodings) : Fails(encodings[j])

\* A read that returned under the second candidate after the first raised
\* a decode error.
C20_Witness ==
    /\ pc = "done"
    /\ attempt = 2
    /\ Fails(encodings[1])
    /\ Len(log) > 0

\* -------------------------------------------------- section claim C21

\* C21: the section Reading Engine instantiates each declared section type
\* exactly once, in declared order, before anything else, and only then
\* instantiates one Default section per remaining non-empty probe until the
\* stream is exhausted; a declared type is never instantiated after the
\* first Default section.
C21_DeclaredSectionsFirstThenDefaults ==
    engine = "SectionReading" =>
        /\ \A k \in 1..Len(log) :
               IF k <= Len(schema)
               THEN log[k].type = schema[k]
               ELSE /\ log[k].type = "Default"
                    /\ log[k].chunk # <<>>
        /\ (Len(log) >= 1 => log[1].start = 0)
        /\ \A k \in 2..Len(log) : log[k].start = log[k - 1].end
        /\ Iter = <<1>> \o [k \in 1..Len(log) |-> log[k].node]
        /\ (pc \in {"probe", "restore", "read", "done"} => Len(log) >= Len(schema))
        /\ (pc = "done" => pos = Len(content))

C21_Witness ==
    /\ engine = "SectionReading"
    /\ pc = "done"
    /\ Len(schema) = 2
    /\ Len(log) = 3
    /\ log[3].type = "Default"

\* ------------------------------------------------ register claims C25, C26

\* The pattern stands at position 0 of the text.
AtStart(pat, text) == Len(text) >= 1 /\ text[1] = pat

\* C25: Register.matches(chunk) is true exactly when IDENTIFIER occurs at
\* position 0 of the chunk's fixed-width prefix chunk[:IDENTIFIER_DIGITS]; an
\* occurrence of IDENTIFIER that starts at a later offset inside that prefix
\* does not make the register match. Seen on the engine: the type it
\* instantiates for a chunk is the first declared type whose identifier
\* stands at position 0, and Default when there is none.
C25_MatchesOnlyAtPositionZero ==
    engine = "RegisterReading" =>
        \A k \in 1..Len(log) :
            LET t == log[k].type
                chunk == log[k].chunk
                atStart == {i \in 1..Len(schema) :
                              AtStart(IDENTIFIER(schema[i]),
                                      Prefix(chunk, IDENTIFIER_DIGITS(schema[i])))}
            IN  IF atStart = {}
                THEN t = "Default"
                ELSE \E i \in atStart : t = schema[i] /\ \A j \in atStart : i <= j

\* C26: in BINARY storage, for a register type whose fields are laid out
\* contiguously after the identifier, Register.read consumes from the stream
\* exactly IDENTIFIER_DIGITS plus the sum of the declared field sizes (the
\* number of bytes Register.write emits for that type), or what is left of
\* the stream when it is shorter, so that in a stream of consecutive binary
\* registers each register is read from its own start offset.
C26_BinaryReadConsumesDeclaredSize ==
    (engine = "RegisterReading" /\ storage = "BINARY") =>
        \A k \in 1..Len(log) :
            LET t == log[k].type
            IN  t # "Default" =>
                    log[k].end = Min(log[k].start + IDENTIFIER_DIGITS(t)
                                         + SumSeq(FieldSizes(t)),
                                     Len(content))

\* ------------------------------------------------------ component states

\* ComponentState
ComponentStates == {"NOT_FOUND", "READ_SUCCESS", "READ_ERROR", "WRITE_SUCCESS", "WRITE_ERROR"}

\* Block and Section, whose read and write raise NotImplementedError, and
\* a concrete class of each, whose read and write return True or False.
BlockClasses == {"Block", "DummyBlock"}
SectionClasses == {"Section", "DummySection"}

Outcomes(c) ==
    IF c \in {"Block", "Section"} THEN {"NotImplementedError"} ELSE {"True", "False"}

\* Block.success / Section.success
success(st) == st \in {"READ_SUCCESS", "WRITE_SUCCESS"}

\* A write_block that calls write in every state.
WriteCalled_Always(st) == TRUE

\* write_block / write_section: write is called only on a component that
\* was read with success.
WriteCalled(st) == st = "READ_SUCCESS"

\* The entry a call leaves in the history.
Call(op, called, res, after) ==
    [op |-> op, class |-> cclass, before |-> cstate, after |-> after,
     called |-> called, outcome |-> IF called THEN res ELSE "None",
     success |-> success(after)]

\* read_block / read_section: the state follows the result of read; an
\* exception of read leaves the state as it was.
ReadComponent(res) ==
    /\ Len(ccalls) < MaxCalls
    /\ res \in Outcomes(cclass)
    /\ LET after == CASE res = "True" -> "READ_SUCCESS"
                      [] res = "False" -> "READ_ERROR"
                      [] OTHER -> cstate
       IN  /\ cstate' = after
           /\ ccalls' = Append(ccalls, Call("read", TRUE, res, after))
    /\ UNCHANGED <<cclass, mvars, lvars, ovars>>
    /\ UNCHANGED <<cvars, rvars, vvars, fvars, wvars>>

\* write_block / write_section: the state follows the result of write when
\* write is called.
WriteComponent(res) ==
    /\ Len(ccalls) < MaxCalls
    /\ res \in Outcomes(cclass)
    /\ LET called == WriteCalled(cstate)
           after == CASE called /\ res = "True" -> "WRITE_SUCCESS"
                      [] called /\ res = "False" -> "WRITE_ERROR"
                      [] OTHER -> cstate
       IN  /\ cstate' = after
           /\ ccalls' = Append(ccalls, Call("write", called, res, after))
    /\ UNCHANGED <<cclass, mvars, lvars, ovars>>
    /\ UNCHANGED <<cvars, rvars, vvars, fvars, wvars>>

read_block(res) == cclass \in BlockClasses /\ ReadComponent(res)
write_block(res) == cclass \in BlockClasses /\ WriteComponent(res)
read_section(res) == cclass \in SectionClasses /\ ReadComponent(res)
write_section(res) == cclass \in SectionClasses /\ WriteComponent(res)

\* Block.__init__(state=...) / Section.__init__(state=...): a component of
\* any class is constructed in any state, NOT_FOUND by default.
InitComponent ==
    /\ cclass \in BlockClasses \cup SectionClasses
    /\ cstate \in ComponentStates
    /\ ccalls = <<>>
    /\ InitNoMatch /\ InitNoLine /\ InitNoFiles
    /\ InitContainer("BlockData", "Default", EmptyData)
    /\ InitIdleReader
    /\ InitNoVersions /\ InitNoField /\ InitNoWriter

NextComponent ==
    \/ \E res \in {"True", "False", "NotImplementedError"} : read_block(res)
    \/ \E res \in {"True", "False", "NotImplementedError"} : write_block(res)
    \/ \E res \in {"True", "False", "NotImplementedError"} : read_section(res)
    \/ \E res \in {"True", "False", "NotImplementedError"} : write_section(res)

SpecComponent == InitComponent /\ [][NextComponent]_vars

\* -------------------------------------------- component claims C22, C28

\* The call that has just been made.
LastCall == ccalls'[Len(ccalls')]

\* C22: write_section invokes the section's own write whether or not the
\* section was read before: a Section that was constructed and never read
\* still has its write called (so the base Section raises
\* NotImplementedError, and a concrete section emits its data).
C22_WriteSectionCallsWriteUnread ==
    \A k \in 1..Len(ccalls) :
        (ccalls[k].op = "write" /\ ccalls[k].class \in SectionClasses) =>
            /\ ccalls[k].called
            /\ (ccalls[k].class = "Section" => ccalls[k].outcome = "NotImplementedError")

\* C28, as stated: a Block's state moves only along NOT_FOUND ->
\* READ_SUCCESS | READ_ERROR (by read_block, according to read's result) and
\* READ_SUCCESS -> WRITE_SUCCESS | WRITE_ERROR (by write_block, according to
\* write's result): write_block neither calls write on nor changes the state
\* of a block whose state is not READ_SUCCESS, and success is true exactly
\* in READ_SUCCESS and WRITE_SUCCESS.
C28_StateMovesOnlyFromNotFoundAndReadSuccess ==
    [][(cclass \in BlockClasses /\ ccalls' # ccalls) =>
        /\ cstate' # cstate =>
               \/ /\ LastCall.op = "read"
                  /\ cstate = "NOT_FOUND"
                  /\ cstate' = (IF LastCall.outcome = "True"
                                THEN "READ_SUCCESS" ELSE "READ_ERROR")
               \/ /\ LastCall.op = "write"
                  /\ cstate = "READ_SUCCESS"
                  /\ cstate' = (IF LastCall.outcome = "True"
                                THEN "WRITE_SUCCESS" ELSE "WRITE_ERROR")
        /\ (LastCall.op = "write" /\ cstate # "READ_SUCCESS") =>
               ~LastCall.called /\ cstate' = cstate
        /\ LastCall.success <=> cstate' \in {"READ_SUCCESS", "WRITE_SUCCESS"}]_vars

\* C28, amended: a Block's state changes only by read_block, which moves it
\* from whatever state it is in to READ_SUCCESS | READ_ERROR (according to
\* read's result), and by write_block, which moves it from READ_SUCCESS to
\* WRITE_SUCCESS | WRITE_ERROR (according to write's result): write_block
\* neither calls write on nor changes the state of a block whose state is
\* not READ_SUCCESS, and success is true exactly in READ_SUCCESS and
\* WRITE_SUCCESS.
C28_StateFollowsReadAndGuardedWrite ==
    [][(cclass \in BlockClasses /\ ccalls' # ccalls) =>
        /\ cstate' # cstate =>
               \/ /\ LastCall.op = "read"
                  /\ cstate' = (IF LastCall.outcome = "True"
                                THEN "READ_SUCCESS" ELSE "READ_ERROR")
               \/ /\ LastCall.op = "write"
                  /\ cstate = "READ_SUCCESS"
                  /\ cstate' = (IF LastCall.outcome = "True"
                                THEN "WRITE_SUCCESS" ELSE "WRITE_ERROR")
        /\ (LastCall.op = "read" /\ LastCall.outcome \in {"True", "False"}) =>
               cstate' = (IF LastCall.outcome = "True"
                          THEN "READ_SUCCESS" ELSE "READ_ERROR")
        /\ (LastCall.op = "write" /\ cstate = "READ_SUCCESS"
                /\ LastCall.outcome \in {"True", "False"}) =>
               cstate' = (IF LastCall.outcome = "True"
                          THEN "WRITE_SUCCESS" ELSE "WRITE_ERROR")
        /\ (LastCall.op = "write" /\ cstate # "READ_SUCCESS") =>
               ~LastCall.called /\ cstate' = cstate
        /\ LastCall.success <=> cstate' \in {"READ_SUCCESS", "WRITE_SUCCESS"}]_vars

C28_Witness ==
    /\ cclass = "DummyBlock"
    /\ Len(ccalls) = 2
    /\ ccalls[1].op = "read" /\ ccalls[1].before = "READ_ERROR"
    /\ ccalls[1].after = "READ_SUCCESS"
    /\ ccalls[2].op = "write" /\ ccalls[2].called
    /\ cstate = "WRITE_SUCCESS"

\* ------------------------------------------------------ pattern matching

Kinds == {"str", "bytes"}

\* re.search(pattern, string) is not None: a str pattern on a bytes string,
\* or a bytes pattern on a str string, raises TypeError.
re_search(pat, string) ==
    IF pat.kind # string.kind THEN "TypeError"
    ELSE IF Search(pat.text, string.text) THEN "True"
    ELSE "False"

\* Block.begins: re.search(cls.BEGIN_PATTERN, line) is not None
block_begins ==
    /\ matched.op = "none"
    /\ matched' = [op |-> "begins", result |-> re_search(PATTERN, candidate)]
    /\ UNCHANGED <<PATTERN, candidate, kvars, lvars, ovars>>
    /\ UNCHANGED <<cvars, rvars, vvars, fvars, wvars>>

\* Block.ends: re.search(cls.END_PATTERN, line) is not None
block_ends ==
    /\ matched.op = "none"
    /\ matched' = [op |-> "ends", result |-> re_search(PATTERN, candidate)]
    /\ UNCHANGED <<PATTERN, candidate, kvars, lvars, ovars>>
    /\ UNCHANGED <<cvars, rvars, vvars, fvars, wvars>>

\* A block class with a text or byte pattern and a text or byte chunk.
InitMatch ==
    /\ PATTERN \in [kind : Kinds, text : {"a", "b"}]
    /\ candidate \in [kind : Kinds, text : SeqsUpTo({"a", "b"}, MaxLen)]
    /\ matched = [op |-> "none", result |-> "unset"]
    /\ InitNoState /\ InitNoLine /\ InitNoFiles
    /\ InitContainer("BlockData", "Default", EmptyData)
    /\ InitIdleReader
    /\ InitNoVersions /\ InitNoField /\ InitNoWriter

NextMatch == block_begins \/ block_ends

SpecMatch == InitMatch /\ [][NextMatch]_vars

\* -------------------------------------------------- matching claim C24

\* C24: Block.begins and Block.ends return false, and never raise, when the
\* class pattern and the candidate chunk differ in kind (a text pattern
\* against a byte chunk, or a byte pattern against a text chunk); they
\* return true only when both are of the same kind and the pattern is found
\* in the chunk.
C24_KindMismatchIsNoMatch ==
    matched.op \in {"begins", "ends"} =>
        /\ (PATTERN.kind # candidate.kind => matched.result = "False")
        /\ (matched.result = "True" =>
               /\ PATTERN.kind = candidate.kind
               /\ Search(PATTERN.text, candidate.text))

\* ------------------------------------------------- class-level line fields

\* The register instances of the class R4 and the lines they read.
Instances == {1, 2}
Raws ==
    {<<"b">>, <<"b", ";", "a">>, <<"b", ";", "a", ";", "b">>,
     <<"b", ";", "b", ";", "a">>, <<"b", " ", "a", "b">>, <<"b", " ", "b">>}

\* str.split(delimiter)
RECURSIVE Split(_, _)
Split(text, d) ==
    IF \A i \in 1..Len(text) : text[i] # d THEN <<text>>
    ELSE LET i == CHOOSE i \in 1..Len(text) :
                      text[i] = d /\ \A j \in 1..(i - 1) : text[j] # d
         IN  <<SubSeq(text, 1, i - 1)>> \o Split(SubSeq(text, i + 1, Len(text)), d)

\* __positional_to_delimited_field: the field reads from 0 to its size.
positional_to_delimited_field(f) ==
    [f EXCEPT !.starting_position = 0, !.ending_position = f.size]

\* __positional_reading and BinaryRepository.read: every field reads the
\* line; the values of the fields are returned.
positional_reading(fields, buf, st) == LineRead(fields, buf, st)

\* __delimted_reading: zip(fields, values) pairs the fields with the tokens
\* of the line, so a field without a token is not read: it keeps the value
\* it holds. The values of all the fields are returned.
delimted_reading(fields, held, buf, d) ==
    LET tokens == Split(buf, d)
    IN  [k \in 1..Len(fields) |->
            IF k <= Len(tokens)
            THEN FieldRead(positional_to_delimited_field(fields[k]),
                           Strip(tokens[k]), "TEXT").value
            ELSE held[k]]

\* Line.read through the repository of the storage: the values the fields
\* hold afterwards, given those they held before.
LineReadHeld(fields, held, buf) ==
    IF storage = "BINARY" THEN positional_reading(fields, buf, "BINARY")
    ELSE IF delimiter # "None" THEN delimted_reading(fields, held, buf, delimiter)
    ELSE positional_reading(fields, buf, "TEXT")

\* A values property that hands out a live view of the fields' values.
RepositoryValues_Live(vs) == [alias |-> TRUE, v |-> vs]

\* Repository.values: a new list of the values the fields hold.
RepositoryValues(vs) == [alias |-> FALSE, v |-> vs]

\* Register.data of instance i.
DataOf(i) == IF instances[i].alias THEN shared ELSE instances[i].v

\* Register.read: an ephemeral Line of the instance's identifier field and
\* the class-level LINE fields reads the line; data is the values but the
\* first.
register_read(i, raw) ==
    /\ Len(lcalls) < MaxCalls + 1
    /\ LET fields == <<identifier_field("R4")>> \o LINE("R4")
           vals == LineReadHeld(fields, <<NoneValue>> \o shared, raw)
       IN  /\ shared' = Tail(vals)
           /\ instances' = [instances EXCEPT ![i] = RepositoryValues(Tail(vals))]
           /\ lcalls' = Append(lcalls, [op |-> "read", inst |-> i, raw |-> raw,
                                        returned |-> Tail(vals)])
    /\ UNCHANGED <<delimiter, kvars, mvars, ovars>>
    /\ UNCHANGED <<cvars, rvars, vvars, fvars, wvars>>

\* Register.write: unless the register is empty, the values setter puts the
\* instance's data into the class-level fields, which then write the line.
register_write(i) ==
    /\ Len(lcalls) < MaxCalls + 1
    /\ shared' = IF register_empty(DataOf(i)) THEN shared ELSE DataOf(i)
    /\ lcalls' = Append(lcalls, [op |-> "write", inst |-> i, raw |-> <<>>,
                                 returned |-> <<>>])
    /\ UNCHANGED <<delimiter, instances, kvars, mvars, ovars>>
    /\ UNCHANGED <<cvars, rvars, vvars, fvars, wvars>>

\* Register.__init__ and Field.__init__: the data of a new register and the
\* value of a new field are None.
InitLine ==
    /\ storage \in Storages
    /\ delimiter \in (IF storage = "TEXT" THEN {"None", ";"} ELSE {"None"})
    /\ shared = [k \in 1..Len(LINE("R4")) |-> NoneValue]
    /\ instances = [i \in Instances |->
                       [alias |-> FALSE, v |-> [k \in 1..Len(LINE("R4")) |-> NoneValue]]]
    /\ lcalls = <<>>
    /\ InitNoState /\ InitNoMatch /\ InitNoFiles
    /\ InitContainer("RegisterData", "Default", EmptyData)
    /\ engine = "none" /\ schema = <<>> /\ linesize = 1 /\ content = <<>>
    /\ encodings = <<"utf-8">> /\ attempt = 1 /\ pc = "idle" /\ pos = 0
    /\ last_position_filepointer = 0 /\ line = <<>> /\ log = <<>> /\ opened = 0
    /\ InitNoVersions /\ InitNoField /\ InitNoWriter

NextLine ==
    \/ \E i \in Instances, raw \in Raws : register_read(i, raw)
    \/ \E i \in Instances : register_write(i)

SpecLine == InitLine /\ [][NextLine]_vars

\* ------------------------------------------------- line claims C27, C30

\* C27: Line.read(raw) overwrites every field's value: each returned value
\* depends only on raw and the declared field layout, never on an earlier
\* read through the same fields, in positional, binary and delimited
\* layouts, including a delimited raw line that splits into fewer tokens
\* than there are fields. Two reads of the same raw line return the same
\* values.
C27_ReadDependsOnlyOnRawAndLayout ==
    \A j, k \in 1..Len(lcalls) :
        (lcalls[j].op = "read" /\ lcalls[k].op = "read" /\ lcalls[j].raw = lcalls[k].raw)
            => lcalls[j].returned = lcalls[k].returned

\* The register instances that have been read.
AlreadyRead == {i \in Instances : \E k \in 1..Len(lcalls) :
                   lcalls[k].op = "read" /\ lcalls[k].inst = i}

\* C30: the data of a register that has already been read is never changed
\* by later reads or writes of other register instances of the same class,
\* even though every instance decodes and encodes through the same
\* class-level LINE field objects.
C30_ReadDataUntouchedByOtherInstances ==
    [][lcalls' # lcalls =>
        \A i \in AlreadyRead :
            i # lcalls'[Len(lcalls')].inst => DataOf(i)' = DataOf(i)]_vars

C30_Witness ==
    /\ Len(lcalls) = 3
    /\ lcalls[1].op = "read" /\ lcalls[1].inst = 1
    /\ lcalls[2].op = "read" /\ lcalls[2].inst = 2
    /\ lcalls[3].op = "write" /\ lcalls[3].inst = 2
    /\ DataOf(1) # DataOf(2)
    /\ shared = DataOf(2)
    /\ ~register_empty(DataOf(1))

\* ----------------------------------------------------------- file objects

FileClasses == <<"BlockFile", "RegisterFile", "SectionFile">>
FileObjects == {1, 2}

\* The default value of the data parameter of __init__: one container per
\* file class, built once, when the def statement is executed.
DefaultData(c) == CHOOSE k \in 1..Len(FileClasses) : FileClasses[k] = c

\* A record container holding its Default root only.
NewContainer == <<"Default">>

\* BlockFile.__init__ / RegisterFile.__init__ / SectionFile.__init__:
\* self.__data = data, the container of the caller or the default value.
file_init(c, explicit) ==
    /\ Len(fileobj) < Cardinality(FileObjects)
    /\ IF explicit
       THEN /\ containers' = Append(containers, NewContainer)
            /\ fileobj' = Append(fileobj, [class |-> c, data |-> Len(containers) + 1,
                                           explicit |-> TRUE])
       ELSE /\ containers' = containers
            /\ fileobj' = Append(fileobj, [class |-> c, data |-> DefaultData(c),
                                           explicit |-> FALSE])
    /\ lastOp' = [op |-> "file_init", ref |-> Len(fileobj) + 1, new |-> None]
    /\ UNCHANGED <<variant, root, head, previous, next, data, cls, used, live>>
    /\ UNCHANGED <<kvars, mvars, lvars>>
    /\ UNCHANGED <<rvars, vvars, fvars, wvars>>

\* file.data.append(record)
file_append(f) ==
    /\ f \in 1..Len(fileobj)
    /\ Len(containers[fileobj[f].data]) <= MaxLen
    /\ containers' = [containers EXCEPT ![fileobj[f].data] = Append(@, "Record")]
    /\ lastOp' = [op |-> "file_append", ref |-> f, new |-> None]
    /\ UNCHANGED <<variant, root, head, previous, next, data, cls, used, live>>
    /\ UNCHANGED <<fileobj, kvars, mvars, lvars>>
    /\ UNCHANGED <<rvars, vvars, fvars, wvars>>

\* file.data.remove(file.data.last), the root left in place.
file_remove(f) ==
    /\ f \in 1..Len(fileobj)
    /\ Len(containers[fileobj[f].data]) > 1
    /\ containers' = [containers EXCEPT ![fileobj[f].data] = SubSeq(@, 1, Len(@) - 1)]
    /\ lastOp' = [op |-> "file_remove", ref |-> f, new |-> None]
    /\ UNCHANGED <<variant, root, head, previous, next, data, cls, used, live>>
    /\ UNCHANGED <<fileobj, kvars, mvars, lvars>>
    /\ UNCHANGED <<rvars, vvars, fvars, wvars>>

\* The file classes have been defined: their default containers exist; no
\* file object has been constructed.
InitFiles ==
    /\ fileobj = <<>>
    /\ containers = [k \in 1..Len(FileClasses) |-> NewContainer]
    /\ InitNoState /\ InitNoMatch /\ InitNoLine
    /\ InitContainer("BlockData", "Default", EmptyData)
    /\ InitIdleReader
    /\ InitNoVersions /\ InitNoField /\ InitNoWriter

NextFiles ==
    \/ \E k \in 1..Len(FileClasses), explicit \in BOOLEAN : file_init(FileClasses[k], explicit)
    \/ \E f \in FileObjects : file_append(f)
    \/ \E f \in FileObjects : file_remove(f)

SpecFiles == InitFiles /\ [][NextFiles]_vars

\* ------------------------------------------------------ file claim C29

\* C29: two file objects (BlockFile, RegisterFile or SectionFile)
\* constructed without an explicit data argument have independent
\* containers: appending or removing a record through one object's data
\* does not change the length or content of the other object's data.
C29_DefaultContainersIndependent ==
    [][lastOp'.op \in {"file_append", "file_remove"} =>
        \A g \in 1..Len(fileobj) :
            (/\ g # lastOp'.ref
             /\ ~fileobj[g].explicit
             /\ ~fileobj[lastOp'.ref].explicit)
                => containers'[fileobj[g].data] = containers[fileobj[g].data]]_vars

\* ------------------------------------------------------------- type check
TypeOK ==
    /\ variant \in Variants
    /\ root \in Nodes /\ head \in Nodes
    /\ previous \in [Nodes -> NodeOrNone]
    /\ next \in [Nodes -> NodeOrNone]
    /\ used \subseteq Nodes /\ live \subseteq used
    /\ pos \in 0..Len(content)

====
